---- MODULE Spec2Model ----
(***************************************************************************)
(* Model of tools/setup.py of eng209/assets: the environment bootstrap     *)
(* pipeline (main and the functions it calls) as a sequential state        *)
(* machine over the on-disk world it manipulates: the checkout directory,  *)
(* the git repository in it, the download cache, and the virtual           *)
(* environment. One behaviour is a sequence of invocations of the tool on  *)
(* the same machine; the world persists between invocations.               *)
(***************************************************************************)
EXTENDS Integers, Sequences, FiniteSets, TLC

\* ------------------------------------------------------------------ bounds

\* Number of successive invocations of the tool in one behaviour.
MaxRuns == 2
\* Largest timeout (seconds) git_clone_with_retries is called with in SpecClone.
MaxTimeout == 3
\* Longest time (seconds) one failing `git clone` attempt takes.
MaxAttemptDur == 1
\* Longest time (seconds) time.sleep(1) sleeps beyond the second it is asked for.
MaxOversleep == 1
\* Number of versions the remote archive goes through.
MaxVer == 2
\* Length of the prefix of PACKAGES that is installed in the model.
MaxPackages == 2
\* Length of the prefix of VSCODE_EXTENSIONS["install"] that the model reconciles.
MaxExtensions == 1
\* Largest number of releases the GitHub API returns in SpecRelease.
MaxReleases == 3
\* Largest number of members of an archive in SpecExtract.
MaxMembers == 3

\* --------------------------------------------------------- program constants

\* Default of the timeout parameter of git_clone_with_retries; main never passes one.
DefaultTimeout == 15

\* PACKAGES, cut to its first MaxPackages names.
PACKAGES ==
  SubSeq(<< "ipykernel", "ipywidgets", "jupyterlab-latex", "matplotlib", "plotly",
            "numpy", "pandas", "scikit-learn", "func_timeout", "bpython", "mypy",
            "nbformat", "pooch", "tqdm", "pandas-stubs", "scipy-stubs", "ipympl" >>,
         1, IF MaxPackages < 17 THEN MaxPackages ELSE 17)

\* VSCODE_EXTENSIONS, its install list cut to its first MaxExtensions names.
VSCODE_EXTENSIONS ==
  [install |->
     SubSeq(<< "ms-python.python@2025.12.0", "ms-python.black-formatter@2025.2.0",
               "ms-python.mypy-type-checker@2025.2.0", "ms-toolsai.jupyter@2025.7.0",
               "matangover.mypy@0.4.2", "jock.svg@1.5.4" >>,
            1, IF MaxExtensions < 6 THEN MaxExtensions ELSE 6),
   uninstall |-> << "formulahendry.code-runner" >>]

\* Default of the force_overwrite parameter of extract_archive (relative paths).
force_overwrite == { <<"update.py">> }

\* The members of the downloaded archive, in archive order (ZipInfo.filename split
\* at "/", and ZipInfo.is_dir()): GitHub's single-root-folder source archive.
ArchiveMembers ==
  << [filename |-> <<"eng209-main">>, is_dir |-> TRUE],
     [filename |-> <<"eng209-main", "update.py">>, is_dir |-> FALSE],
     [filename |-> <<"eng209-main", "notes.txt">>, is_dir |-> FALSE] >>

\* The relative paths under the checkout that the model tracks.
TargetPaths == { <<"update.py">>, <<"notes.txt">> }

VARIABLES
  run,         \* number of the current invocation of the tool
  pc,          \* the statement of main / __main__ that executes next
  args,        \* parsed command line: [clone, deep_clone, force]
  has_git,     \* result of verify_git()
  has_vscode,  \* result of verify_vscode()
  ran,         \* the operations started in this invocation, in order
  failed,      \* the operations of this invocation that failed
  log,         \* the records logged in this invocation, in order
  exitCode,    \* exit status of the process; -1 while it runs
  timeout,     \* git_clone_with_retries: its timeout parameter
  elapsed,     \* git_clone_with_retries: time.time() - start
  i,           \* git_clone_with_retries: failed attempts so far
  cloned,      \* some clone attempt of this invocation succeeded (history)
  stash_result, \* main: the result of `git stash pop`
  checkout,    \* course_path: [exists, marker, intact]
  files,       \* content of each tracked relative path under course_path
  repo,        \* git state of the checkout: [head, origin, wt, stash]
  cache,       \* ~/.cache/eng209 entry of CODE_ARCHIVE: [body, meta]
  server,      \* the remote archive: [ver, etag, lm]
  headers,     \* download_with_etag: the conditional headers of its request
  resp,        \* download_with_etag: the response being processed
  k,           \* loop index of extract_archive / install_packages
  venv,        \* state of course_path/venv
  installed,   \* packages installed in the venv
  hist,        \* history: the world before the first invocation (after it, only
               \* its checkout), the .git marker at the start of this invocation,
               \* the last interrupted invocation; see Followed
  fails,       \* manage_vscode_extensions: [install, uninstall], the lists
               \* fail_install and fail_uninstall
  releases,    \* get_release.py: the releases the GitHub API returned
  version_prefix, \* select_latest_matching_release: its parameter (empty: None)
  label_regex, \* select_latest_matching_release: its parameter (empty: None)
  matches,     \* select_latest_matching_release: the list it builds
  selected,    \* get_release.py: what select_latest_matching_release returned
  members,     \* extract_archive on its own: zip_ref.infolist()
  present,     \* extract_archive on its own: the files below extract_to
  written      \* extract_archive on its own: the paths it has written

vars == << run, pc, args, has_git, has_vscode, ran, failed, log, exitCode, timeout,
           elapsed, i, cloned, stash_result, checkout, files, repo, cache, server,
           headers, resp, k, venv, installed, hist, fails, releases, version_prefix,
           label_regex, matches, selected, members, present, written >>

\* Groups of variables, for UNCHANGED.
runVars == << run, args, has_git, has_vscode >>
opVars == << ran, failed >>
cloneVars == << timeout, elapsed, i, cloned >>
repoVars == << repo, stash_result >>
dlVars == << cache, server, headers, resp >>
envVars == << venv, installed >>
relVars == << releases, version_prefix, label_regex, matches, selected >>
zipVars == << members, present, written >>
\* The variables of the functions that main does not call with them.
otherVars == << relVars, zipVars >>

\* ------------------------------------------------------------------ values

\* Content of a file: missing, the student's own, cut short by an interrupted
\* write, or the bytes of version ver of the remote archive.
Missing == [kind |-> "none", ver |-> 0]
Student == [kind |-> "user", ver |-> 0]
Truncated == [kind |-> "partial", ver |-> 0]
Archive(v) == [kind |-> "archive", ver |-> v]

\* Content of the .meta.json file of the cache entry; 0 stands for None.
NoMeta == [kind |-> "none", ETag |-> 0, LastModified |-> 0]
BadMeta == [kind |-> "partial", ETag |-> 0, LastModified |-> 0]
Meta(etag, lm) == [kind |-> "json", ETag |-> etag, LastModified |-> lm]

\* The headers of a call that has made no request: neither conditional header.
NoHeaders == [IfNoneMatch |-> 0, IfModifiedSince |-> 0]

\* No request was made. kind says how urlopen delivered an answer: as a response
\* object, or as an HTTPError or URLError it raised.
NoResp == [kind |-> "none", status |-> 0, ver |-> 0, ETag |-> 0, LastModified |-> 0]

\* fail_install and fail_uninstall of manage_vscode_extensions, empty.
NoFails == [install |-> << >>, uninstall |-> << >>]

\* stash_result before `git stash pop` has run.
NoResult == [returncode |-> -1, stdout |-> << >>, stderr |-> << >>]

\* An uncommitted edit of tracked files: whose it is, whether it touches the lines
\* the remote tip changed, and the commit it was made on.
NoEdit == [id |-> "none", lines |-> "none", base |-> "none"]
CleanTree == [edit |-> NoEdit, markers |-> FALSE]
EmptyRepo == [head |-> "none", origin |-> "none", wt |-> CleanTree, stash |-> << >>]

AbsentCheckout == [exists |-> FALSE, marker |-> FALSE, intact |-> FALSE]
NoFiles == [p \in TargetPaths |-> Missing]

\* The command lines: archive mode with or without --force, --clone, --deep-clone
\* (--force is ignored when cloning).
ArgChoices ==
  { [clone |-> FALSE, deep_clone |-> FALSE, force |-> FALSE],
    [clone |-> FALSE, deep_clone |-> FALSE, force |-> TRUE],
    [clone |-> TRUE, deep_clone |-> FALSE, force |-> FALSE],
    [clone |-> FALSE, deep_clone |-> TRUE, force |-> FALSE] }

\* logger.<level>(msg). A record is the level, the fixed text of the message and
\* the value formatted into it ("" if none). Only warnings, errors and critical
\* messages are kept.
Logged(level, msg, arg) == Append(log, [level |-> level, msg |-> msg, arg |-> arg])

\* str(e) of the subprocess.CalledProcessError that run(cmd) raises.
CalledProcessError(cmd) == "Command '" \o cmd \o "' returned non-zero exit status 1."

\* ------------------------------------------------------------ text of outputs

\* Text is a sequence of characters.
UpperCase ==
  << "A", "B", "C", "D", "E", "F", "G", "H", "I", "J", "K", "L", "M", "N", "O",
     "P", "Q", "R", "S", "T", "U", "V", "W", "X", "Y", "Z" >>
LowerCase ==
  << "a", "b", "c", "d", "e", "f", "g", "h", "i", "j", "k", "l", "m", "n", "o",
     "p", "q", "r", "s", "t", "u", "v", "w", "x", "y", "z" >>

\* str.lower()
Lower(text) ==
  [j \in 1..Len(text) |->
     IF \E u \in 1..26 : UpperCase[u] = text[j]
       THEN LowerCase[CHOOSE u \in 1..26 : UpperCase[u] = text[j]]
       ELSE text[j]]

\* needle in text
Contains(text, needle) ==
  \E j \in 1..(Len(text) - Len(needle) + 1) :
     SubSeq(text, j, j + Len(needle) - 1) = needle

\* What `git stash pop` prints (first line of stdout, stderr) and returns.
PopDropped ==
  [returncode |-> 0, stderr |-> << >>,
   stdout |-> << "D", "r", "o", "p", "p", "e", "d", " ", "r", "e", "f", "s", "/",
             "s", "t", "a", "s", "h", "@", "{", "0", "}" >>]
PopConflict ==
  [returncode |-> 1, stderr |-> << >>,
   stdout |-> << "C", "O", "N", "F", "L", "I", "C", "T", " ", "(", "c", "o", "n",
             "t", "e", "n", "t", ")", ":", " ", "M", "e", "r", "g", "e", " ",
             "c", "o", "n", "f", "l", "i", "c", "t", " ", "i", "n", " ", "n",
             "o", "t", "e", "s", ".", "t", "x", "t" >>]
PopNoStash ==
  [returncode |-> 1, stdout |-> << >>,
   stderr |-> << "N", "o", " ", "s", "t", "a", "s", "h", " ", "e", "n", "t", "r",
             "i", "e", "s", " ", "f", "o", "u", "n", "d", "." >>]
PopFatal ==
  [returncode |-> 128, stdout |-> << >>,
   stderr |-> << "f", "a", "t", "a", "l", ":", " ", "U", "n", "a", "b", "l", "e",
             " ", "t", "o", " ", "c", "r", "e", "a", "t", "e", " ", "i", "n",
             "d", "e", "x", ".", "l", "o", "c", "k" >>]

\* ------------------------------------------------------------------ exceptions

\* The classes of the exceptions main can see that derive from Exception.
ExceptionClasses ==
  { "RuntimeError", "CalledProcessError", "HTTPError", "URLError",
    "JSONDecodeError", "BadZipFile", "OSError", "IncompleteRead" }

\* isinstance(e, cls) for an exception of class kind: KeyboardInterrupt derives
\* from BaseException, not from Exception.
IsInstance(kind, cls) ==
  \/ cls = kind
  \/ cls = "BaseException"
  \/ cls = "Exception" /\ kind \in ExceptionClasses

\* The statements of main inside `try:` of the update sequence, lines 612-644,
\* and inside `try:` of download_github_zip, lines 235-236.
UpdatePcs ==
  { "stash_push", "fetch_tags", "fetch_origin", "rev_parse", "reset_hard", "stash_pop" }
DownloadPcs == { "download", "dl_body", "dl_meta" }

\* The statements of manage_vscode_extensions inside its two `try:`, lines 520-525
\* and 532-534.
ExtensionPcs == { "ext_install", "ext_uninstall" }

\* An update sequence guarded by a bare `except:`.
StageHandlerMut(p) ==
  IF p \in {"verify_git", "verify_vscode"} THEN "Exception"
  ELSE IF p = "clone_run" THEN "CalledProcessError"
  ELSE IF p \in UpdatePcs THEN "BaseException"
  ELSE IF p \in DownloadPcs THEN "Exception"
  ELSE IF p \in ExtensionPcs THEN "CalledProcessError"
  ELSE "none"

\* A manage_vscode_extensions without try around its commands.
StageHandlerNoExt(p) ==
  IF p \in {"verify_git", "verify_vscode"} THEN "Exception"
  ELSE IF p = "clone_run" THEN "CalledProcessError"
  ELSE IF p \in UpdatePcs THEN "Exception"
  ELSE IF p \in DownloadPcs THEN "Exception"
  ELSE "none"

\* The class that the innermost `except` clause around statement p catches
\* ("none" outside every try): verify_git and verify_vscode (except Exception),
\* the clone attempt (except subprocess.CalledProcessError), the update sequence
\* (except Exception), download_github_zip (except Exception), the commands of
\* manage_vscode_extensions (except subprocess.CalledProcessError).
StageHandler(p) ==
  IF p \in {"verify_git", "verify_vscode"} THEN "Exception"
  ELSE IF p = "clone_run" THEN "CalledProcessError"
  ELSE IF p \in UpdatePcs THEN "Exception"
  ELSE IF p \in DownloadPcs THEN "Exception"
  ELSE IF p \in ExtensionPcs THEN "CalledProcessError"
  ELSE "none"

\* The except clause around the statement at pc catches an exception of class kind.
Caught(kind) == StageHandler(pc) # "none" /\ IsInstance(kind, StageHandler(pc))

\* A __main__ whose handler of Exception logs the error and does not call sys.exit.
UncaughtMut(kind, msg) ==
  /\ pc' = "exit"
  /\ log' = IF IsInstance(kind, "KeyboardInterrupt")
              THEN Logged("CRITICAL", "Interrupted", "")
              ELSE Logged("CRITICAL", "Error: ", msg)
  /\ exitCode' = 0

\* __main__, lines 689-697: KeyboardInterrupt is logged as critical "Interrupted"
\* and the process ends with status 0; an Exception is logged as critical
\* "Error: ..." and the process exits with status 1.
Uncaught(kind, msg) ==
  /\ pc' = "exit"
  /\ IF IsInstance(kind, "KeyboardInterrupt")
       THEN /\ log' = Logged("CRITICAL", "Interrupted", "")
            /\ exitCode' = 0
       ELSE /\ log' = Logged("CRITICAL", "Error: ", msg)
            /\ exitCode' = 1

\* The RuntimeError the update raises on a conflict.
ConflictMessage == "Merge conflict occurred while applying stashed changes"

\* An except clause that logs and raises again.
UpdateExceptMut(cause) ==
  /\ log' = log \o
       << [level |-> "ERROR", msg |-> "Update failed: ", arg |-> cause],
          [level |-> "CRITICAL", msg |-> "Error: ", arg |-> cause] >>
  /\ pc' = "exit"
  /\ exitCode' = 1

\* main, lines 645-649: the except clause of the update sequence logs two errors
\* and main goes on after the if statement.
UpdateExcept(cause) ==
  /\ log' = log \o
       << [level |-> "ERROR", msg |-> "Update failed: ", arg |-> cause],
          [level |-> "ERROR", arg |-> "", msg |->
    "Your local changes may still be stashed. Resolve conflicts manually if needed."] >>
  /\ pc' = "create_virtualenv"
  /\ exitCode' = exitCode

\* An exception of class kind raised by a statement of the update sequence.
RaiseInUpdate(kind, msg) ==
  IF Caught(kind) THEN UpdateExcept(msg) ELSE Uncaught(kind, msg)

\* CODE_ARCHIVE, the URL of the archive; its value depends on the environment.
CODE_ARCHIVE == "https://github.com/eng209/eng209_SEMESTER/archive/main.zip"

\* A download_github_zip that lets the exception through as it is.
RaiseInDownloadMut(kind, msg) == Uncaught(kind, msg)

\* A download_github_zip that reports the failure itself before it raises.
RaiseInDownloadLogs(kind, msg) ==
  /\ pc' = "exit"
  /\ exitCode' = IF IsInstance(kind, "KeyboardInterrupt") THEN 0 ELSE 1
  /\ log' = log \o
       << [level |-> "CRITICAL", msg |-> "Download failed: ", arg |-> CODE_ARCHIVE],
          [level |-> "CRITICAL",
           msg |-> IF IsInstance(kind, "KeyboardInterrupt") THEN "Interrupted" ELSE "Error: ",
           arg |-> IF IsInstance(kind, "KeyboardInterrupt") THEN "" ELSE msg] >>

\* An exception of class kind raised inside download_with_etag: download_github_zip
\* raises RuntimeError(f"Download failed: {url}\n{e}") in its place, lines 237-238.
RaiseInDownload(kind, msg) ==
  IF Caught(kind)
    THEN Uncaught("RuntimeError", "Download failed: " \o CODE_ARCHIVE \o "\n" \o msg)
    ELSE Uncaught(kind, msg)

\* ------------------------------------------------------------- initial states

\* A directory that a killed `git clone` leaves behind: with or without .git.
PartialCheckouts ==
  { [exists |-> TRUE, marker |-> m, intact |-> FALSE] : m \in BOOLEAN }

\* The worlds the first invocation can find: no checkout; a plain tree with some
\* files of the student's; a git checkout behind its remote, with or without
\* uncommitted edits to tracked files and an older stash entry of the student's.
InitialWorlds ==
  { [checkout |-> AbsentCheckout, files |-> NoFiles, repo |-> EmptyRepo] }
  \cup { [checkout |-> [exists |-> TRUE, marker |-> FALSE, intact |-> FALSE],
          files |-> f, repo |-> EmptyRepo] : f \in [TargetPaths -> {Missing, Student}] }
  \cup { [checkout |-> [exists |-> TRUE, marker |-> TRUE, intact |-> TRUE],
          files |-> NoFiles,
          repo |-> [head |-> "base", origin |-> "base", wt |-> w, stash |-> s]] :
          w \in { CleanTree } \cup
                { [edit |-> [id |-> "local", lines |-> l, base |-> "base"],
                   markers |-> FALSE] : l \in {"disjoint", "overlap"} },
          s \in { << >> } \cup
                { << [msg |-> "WIP",
                      edit |-> [id |-> "shelved", lines |-> l, base |-> "base"]] >> :
                  l \in {"disjoint", "overlap"} } }

\* The remote archive at its first version; GitHub sends both validators.
GitHub == [ver |-> 1, etag |-> TRUE, lm |-> TRUE]

\* The cache the first invocation can find: empty, or, where the checkout is not a
\* git clone, the entry an earlier download of the first version stored.
InitialCaches(w) ==
  { [body |-> Missing, meta |-> NoMeta] } \cup
  (IF w.checkout.marker THEN {} ELSE { [body |-> Archive(1), meta |-> Meta(1, 1)] })

\* A release of the GitHub API, reduced to its tag name; the empty tag name stands
\* for None where a release is returned.
NoRelease == [tag_name |-> << >>]

\* The functions that main does not call are not running.
AtRest ==
  /\ releases = << >>
  /\ version_prefix = << >>
  /\ label_regex = << >>
  /\ matches = << >>
  /\ selected = NoRelease
  /\ members = << >>
  /\ present = {}
  /\ written = {}

\* The state of one invocation before main() runs.
FreshRun ==
  /\ pc = "verify_python"
  /\ has_git = FALSE
  /\ has_vscode = FALSE
  /\ ran = << >>
  /\ failed = {}
  /\ log = << >>
  /\ exitCode = -1
  /\ timeout = 0
  /\ elapsed = 0
  /\ i = 0
  /\ cloned = FALSE
  /\ stash_result = NoResult
  /\ headers = NoHeaders
  /\ resp = NoResp
  /\ k = 0
  /\ fails = NoFails

Init ==
  /\ run = 1
  /\ args \in ArgChoices
  /\ FreshRun
  /\ \E w \in InitialWorlds :
       /\ checkout = w.checkout
       /\ files = w.files
       /\ repo = w.repo
       /\ hist = [world0 |-> w, marker0 |-> w.checkout.marker, intRun |-> 0,
                 repeat |-> TRUE]
       /\ cache \in InitialCaches(w)
  /\ server = GitHub
  /\ venv = "none"
  /\ installed = {}
  /\ AtRest

\* The invocation ran to the end of main and nothing in it failed, except a
\* `git stash pop` that found nothing to pop; if it cloned, an attempt succeeded.
CleanEnd ==
  /\ pc = "exit"
  /\ (\E j \in 1..Len(ran) : ran[j] = "clone") => cloned
  /\ exitCode = 0
  /\ hist.intRun # run
  /\ failed \subseteq {"stash_pop"}
  /\ stash_result \in {NoResult, PopNoStash, PopDropped}

\* The history is followed from the first invocation into the second where the
\* first one found no checkout; elsewhere a new invocation starts without it.
Followed == run = 1 /\ ~hist.world0.checkout.exists

\* The operator runs the tool again on the world the previous invocation left.
Rerun ==
  /\ pc = "exit"
  /\ run < MaxRuns
  /\ run' = run + 1
  /\ args' \in ArgChoices
  /\ pc' = "verify_python"
  /\ has_git' = FALSE
  /\ has_vscode' = FALSE
  /\ ran' = << >>
  /\ failed' = {}
  /\ log' = << >>
  /\ exitCode' = -1
  /\ timeout' = 0
  /\ elapsed' = 0
  /\ i' = 0
  /\ cloned' = FALSE
  /\ stash_result' = NoResult
  /\ headers' = NoHeaders
  /\ resp' = NoResp
  /\ k' = 0
  /\ hist' = [world0 |-> [checkout |-> hist.world0.checkout, files |-> NoFiles,
                          repo |-> EmptyRepo],
              marker0 |-> checkout.marker,
              intRun |-> IF Followed THEN hist.intRun ELSE 0,
              repeat |-> /\ Followed
                         /\ hist.repeat
                         /\ CleanEnd
                         /\ args' = args]
  /\ fails' = NoFails
  /\ UNCHANGED << checkout, files, repo, cache, server, venv, installed, otherVars >>

\* --------------------------------------------------------- main: preconditions

\* verify_python(PYTHON_VERSION): raises unless the interpreter is 3.12.
verify_python ==
  /\ pc = "verify_python"
  /\ \E ok \in BOOLEAN :
       IF ok
         THEN /\ pc' = "verify_git"
              /\ UNCHANGED << log, exitCode >>
         ELSE Uncaught("RuntimeError", "Python 3.12 required")
  /\ UNCHANGED << runVars, opVars, cloneVars, checkout, repoVars, files, dlVars, k,
                  envVars, hist, fails, otherVars >>

\* has_git = verify_git(): any failure of `git --version` is a warning.
verify_git ==
  /\ pc = "verify_git"
  /\ \E found \in BOOLEAN :
       /\ has_git' = found
       /\ log' = IF found THEN log ELSE Logged("WARNING", "Git not found", "")
  /\ pc' = "verify_vscode"
  /\ UNCHANGED << run, args, has_vscode, opVars, exitCode, cloneVars, checkout,
                  repoVars, files, dlVars, k, envVars, hist, fails, otherVars >>

\* has_vscode = verify_vscode(): any failure of `code --version` is a warning.
verify_vscode ==
  /\ pc = "verify_vscode"
  /\ \E found \in BOOLEAN :
       /\ has_vscode' = found
       /\ log' = IF found THEN log
                 ELSE Logged("WARNING", "VS Code not found (Skipping extension setup)", "")
  /\ pc' = "check_base"
  /\ UNCHANGED << run, args, has_git, opVars, exitCode, cloneVars, checkout, repoVars,
                  files, dlVars, k, envVars, hist, fails, otherVars >>

\* if not args.base.exists(): raise RuntimeError
check_base ==
  /\ pc = "check_base"
  /\ \E base_exists \in BOOLEAN :
       IF base_exists
         THEN /\ pc' = "clone_stage"
              /\ UNCHANGED << log, exitCode >>
         ELSE Uncaught("RuntimeError", "Target folder does not exist")
  /\ UNCHANGED << runVars, opVars, cloneVars, checkout, repoVars, files, dlVars, k,
                  envVars, hist, fails, otherVars >>

\* ------------------------------------------------------ git_clone_with_retries

\* A test for the directory instead of the .git directory in it.
IsGitCheckoutMut(c) == c.exists

\* (course_path / ".git").is_dir()
IsGitCheckout(c) == c.marker

\* What one `git clone url dest` that exits non-zero can leave at dest: git
\* refuses a destination that exists, and a clone that dies may leave a partial one.
FailedCloneLeaves(c) ==
  IF c.exists THEN {c} ELSE {c} \cup PartialCheckouts

\* The repository a successful clone creates: the branch at the remote tip.
ClonedRepo == [head |-> "tip", origin |-> "tip", wt |-> CleanTree, stash |-> << >>]

\* A main that clones without looking at the destination.
clone_stageUnchecked ==
  /\ pc = "clone_stage"
  /\ IF (args.clone \/ args.deep_clone) /\ ~IsGitCheckout(checkout)
       THEN /\ pc' = "clone_test"
            /\ ran' = Append(ran, "clone")
            /\ timeout' = DefaultTimeout
            /\ elapsed' = 0
            /\ i' = 0
            /\ UNCHANGED << log, exitCode, cloned >>
       ELSE /\ pc' = "checkout_stage"
            /\ UNCHANGED << ran, log, exitCode, cloneVars >>
  /\ UNCHANGED << runVars, failed, checkout, repoVars, files, dlVars, k, envVars, hist,
                  fails, otherVars >>

\* main, lines 591-606: with --clone/--deep-clone and no .git directory, clone;
\* without a git tool or onto an existing path, raise.
clone_stage ==
  /\ pc = "clone_stage"
  /\ IF args.clone \/ args.deep_clone
       THEN IF ~IsGitCheckout(checkout)
              THEN IF ~has_git
                     THEN /\ Uncaught("RuntimeError",
                                      "git command not found, cannot clone project")
                          /\ UNCHANGED << ran, cloneVars >>
                   ELSE IF checkout.exists
                     THEN /\ Uncaught("RuntimeError",
                                      "cannot clone (exists and is not a git repository)")
                          /\ UNCHANGED << ran, cloneVars >>
                   ELSE /\ pc' = "clone_test"
                        /\ ran' = Append(ran, "clone")
                        /\ timeout' = DefaultTimeout
                        /\ elapsed' = 0
                        /\ i' = 0
                        /\ UNCHANGED << log, exitCode, cloned >>
            ELSE /\ pc' = "checkout_stage"
                 /\ UNCHANGED << ran, log, exitCode, cloneVars >>
       ELSE /\ pc' = "checkout_stage"
            /\ UNCHANGED << ran, log, exitCode, cloneVars >>
  /\ UNCHANGED << runVars, failed, checkout, repoVars, files, dlVars, k,
                  envVars, hist, fails, otherVars >>

\* while time.time() - start < timeout:
CloneTest ==
  /\ pc = "clone_test"
  /\ pc' = IF elapsed < timeout THEN "clone_run" ELSE "clone_exit"
  /\ UNCHANGED << runVars, opVars, log, exitCode, cloneVars, checkout, repoVars, files,
                  dlVars, k, envVars, hist, fails, otherVars >>

\* try: run(["git", "clone", ...]); return / except CalledProcessError: i += 1
\* The attempt takes d seconds. A successful one returns to main.
CloneRun ==
  /\ pc = "clone_run"
  /\ \E d \in 0..MaxAttemptDur :
       \/ /\ ~checkout.exists
          /\ checkout' = [exists |-> TRUE, marker |-> TRUE, intact |-> TRUE]
          /\ repo' = ClonedRepo
          /\ cloned' = TRUE
          /\ pc' = "checkout_stage"
          /\ elapsed' = 0
          /\ i' = i
       \/ /\ checkout' \in FailedCloneLeaves(checkout)
          /\ elapsed' = elapsed + d
          /\ i' = i + 1
          /\ pc' = "clone_sleep"
          /\ UNCHANGED << repo, cloned >>
  /\ UNCHANGED << runVars, opVars, log, exitCode, timeout, stash_result, files, dlVars,
                  k, envVars, hist, fails, otherVars >>

\* time.sleep(1): suspends for at least one second.
CloneSleep ==
  /\ pc = "clone_sleep"
  /\ \E over \in 0..MaxOversleep : elapsed' = elapsed + 1 + over
  /\ pc' = "clone_test"
  /\ UNCHANGED << runVars, opVars, log, exitCode, timeout, i, cloned, checkout,
                  repoVars, files, dlVars, k, envVars, hist, fails, otherVars >>

\* The test after the loop: `if not dest.exists(): raise RuntimeError(...)`.
CloneFailed(c) == ~c.exists

\* After the loop: raise if the destination does not exist, else return to main.
CloneExit ==
  /\ pc = "clone_exit"
  /\ IF CloneFailed(checkout)
       THEN /\ Uncaught("RuntimeError", "Failed to clone")
            /\ failed' = failed \cup {"clone"}
       ELSE /\ pc' = "checkout_stage"
            /\ UNCHANGED << log, exitCode, failed >>
  /\ elapsed' = 0
  /\ UNCHANGED << runVars, ran, timeout, i, cloned, checkout, repoVars, files, dlVars,
                  k, envVars, hist, fails, otherVars >>

\* --------------------------------------------------- main: the update sequence

\* main, lines 608-611 and 650-653: an existing git checkout is updated if git is
\* there, and left alone with a warning if not; anything else gets the archive.
\* The locals of git_clone_with_retries are gone.
checkout_stage ==
  /\ pc = "checkout_stage"
  /\ IF IsGitCheckout(checkout)
       THEN IF has_git
              THEN /\ pc' = "stash_push"
                   /\ log' = log
              ELSE /\ pc' = "create_virtualenv"
                   /\ log' = Logged("WARNING",
                        "Git command not found, cannot update existing git project", "")
       ELSE /\ pc' = "download"
            /\ log' = log
  /\ timeout' = 0
  /\ i' = 0
  /\ UNCHANGED << runVars, opVars, exitCode, elapsed, cloned, checkout, repoVars, files,
                  dlVars, k, envVars, hist, fails, otherVars >>

\* A run(cmd) with check=False: the sequence goes on whatever the command returns.
RunGitUnchecked(name, cmd, next, ok) ==
  /\ ran' = Append(ran, name)
  /\ pc' = next
  /\ failed' = IF ok THEN failed ELSE failed \cup {name}
  /\ UNCHANGED << log, exitCode >>

\* run(cmd) with check=True inside the try block: on success the sequence goes on
\* at `next`, on failure CalledProcessError is raised.
RunGit(name, cmd, next, ok) ==
  /\ ran' = Append(ran, name)
  /\ IF ok
       THEN /\ pc' = next
            /\ UNCHANGED << log, failed, exitCode >>
       ELSE /\ failed' = failed \cup {name}
            /\ RaiseInUpdate("CalledProcessError", CalledProcessError(cmd))

\* A git command works only in an intact repository, and may fail even there.
GitOutcomes == IF checkout.intact THEN BOOLEAN ELSE {FALSE}

\* An update that does not shelve the uncommitted edits.
StashPushMut(r) == r

\* An update that throws the uncommitted edits away instead of shelving them.
StashPushDiscards(r) == [r EXCEPT !.wt = CleanTree]

\* `git stash push`: shelves the uncommitted edits of tracked files, if any.
StashPush(r) ==
  IF r.wt.edit = NoEdit
    THEN r
    ELSE [r EXCEPT !.stash = << [msg |-> "autostash before update", edit |-> r.wt.edit] >>
                               \o @,
                   !.wt = CleanTree]

\* 1. git stash push -m "autostash before update"; it refuses an unmerged index.
stash_push ==
  /\ pc = "stash_push"
  /\ \E ok \in GitOutcomes :
       /\ ok => ~repo.wt.markers
       /\ RunGit("stash_push", "git stash push", "fetch_tags", ok)
       /\ repo' = IF ok THEN StashPush(repo) ELSE repo
  /\ UNCHANGED << runVars, cloneVars, checkout, stash_result, files, dlVars, k, envVars,
                  hist, fails, otherVars >>

\* 2. git fetch --tags
fetch_tags ==
  /\ pc = "fetch_tags"
  /\ \E ok \in GitOutcomes : RunGit("fetch_tags", "git fetch --tags", "fetch_origin", ok)
  /\ UNCHANGED << runVars, cloneVars, checkout, repoVars, files, dlVars, k, envVars,
                  hist, fails, otherVars >>

\* 3. git fetch origin: the remote-tracking branch moves to the remote tip.
fetch_origin ==
  /\ pc = "fetch_origin"
  /\ \E ok \in GitOutcomes :
       /\ RunGit("fetch_origin", "git fetch origin", "rev_parse", ok)
       /\ repo' = IF ok THEN [repo EXCEPT !.origin = "tip"] ELSE repo
  /\ UNCHANGED << runVars, cloneVars, checkout, stash_result, files, dlVars, k, envVars,
                  hist, fails, otherVars >>

\* 4. current_branch = git rev-parse --abbrev-ref HEAD
rev_parse ==
  /\ pc = "rev_parse"
  /\ \E ok \in GitOutcomes :
       RunGit("rev_parse", "git rev-parse --abbrev-ref HEAD", "reset_hard", ok)
  /\ UNCHANGED << runVars, cloneVars, checkout, repoVars, files, dlVars, k, envVars,
                  hist, fails, otherVars >>

\* `git reset --hard origin/<branch>`: branch and working tree become the fetched tip.
ResetHard(r) == [r EXCEPT !.head = r.origin, !.wt = CleanTree]

\* 4. git reset --hard origin/{current_branch}
reset_hard ==
  /\ pc = "reset_hard"
  /\ \E ok \in GitOutcomes :
       /\ RunGit("reset_hard", "git reset --hard", "stash_pop", ok)
       /\ repo' = IF ok THEN ResetHard(repo) ELSE repo
  /\ UNCHANGED << runVars, cloneVars, checkout, stash_result, files, dlVars, k, envVars,
                  hist, fails, otherVars >>

\* `git stash pop` on repository r: the result and the repository it leaves. The top
\* entry is applied and dropped; if it touches lines that changed since it was made,
\* the working tree gets conflict markers and the entry is kept. With no entry, and
\* when git cannot run, the command fails and changes nothing.
StashPop(r) ==
  { [result |-> PopFatal, repo |-> r] } \cup
  IF r.stash = << >>
    THEN { [result |-> PopNoStash, repo |-> r] }
    ELSE LET e == Head(r.stash).edit IN
         IF e.lines = "overlap" /\ e.base # r.head
           THEN { [result |-> PopConflict,
                   repo |-> [r EXCEPT !.wt = [edit |-> e, markers |-> TRUE]]] }
           ELSE { [result |-> PopDropped,
                   repo |-> [r EXCEPT !.wt = [edit |-> [e EXCEPT !.base = r.head],
                                              markers |-> FALSE],
                                      !.stash = Tail(@)]] }

\* A test that looks for the conflict in stderr only.
HasConflictMut(result) ==
  Contains(Lower(result.stderr), << "c", "o", "n", "f", "l", "i", "c", "t" >>)

\* "conflict" in stash_result.stdout.lower() or "conflict" in stash_result.stderr.lower()
HasConflict(result) ==
  \/ Contains(Lower(result.stdout), << "c", "o", "n", "f", "l", "i", "c", "t" >>)
  \/ Contains(Lower(result.stderr), << "c", "o", "n", "f", "l", "i", "c", "t" >>)

\* 5. stash_result = git stash pop, with check=False; a conflict in its output
\* raises RuntimeError, any other result ends the sequence silently.
stash_pop ==
  /\ pc = "stash_pop"
  /\ ran' = Append(ran, "stash_pop")
  /\ \E o \in StashPop(repo) :
       /\ repo' = o.repo
       /\ stash_result' = o.result
       /\ failed' = IF o.result.returncode # 0 THEN failed \cup {"stash_pop"} ELSE failed
       /\ IF HasConflict(o.result)
            THEN RaiseInUpdate("RuntimeError", ConflictMessage)
            ELSE /\ pc' = "create_virtualenv"
                 /\ UNCHANGED << log, exitCode >>
  /\ UNCHANGED << runVars, cloneVars, checkout, files, dlVars, k, envVars,
                  hist, fails, otherVars >>

\* ---------------------------------------------------------- download_with_etag

\* The validators the server sends with its current version; 0 stands for a
\* header it does not send.
ResponseHeaders(srv) ==
  [ETag |-> IF srv.etag THEN srv.ver ELSE 0,
   LastModified |-> IF srv.lm THEN srv.ver ELSE 0]

\* A request that carries If-None-Match alone.
RequestHeadersEtagOnly(meta) ==
  [IfNoneMatch |-> IF meta.kind = "json" THEN meta.ETag ELSE 0,
   IfModifiedSince |-> 0]

\* headers["If-None-Match"] / headers["If-Modified-Since"]: sent if the stored
\* metadata holds a non-empty value; 0 stands for a header that is not sent.
RequestHeaders(meta) ==
  [IfNoneMatch |-> IF meta.kind = "json" THEN meta.ETag ELSE 0,
   IfModifiedSince |-> IF meta.kind = "json" THEN meta.LastModified ELSE 0]

\* The server answers 304 only to a validator that matches its current version:
\* If-None-Match decides when sent, else If-Modified-Since.
NotModified(srv, h) ==
  IF h.IfNoneMatch # 0 THEN h.IfNoneMatch = srv.ver
  ELSE h.IfModifiedSince # 0 /\ h.IfModifiedSince >= srv.ver

\* What urlopen can do with the request: deliver a 200 response, raise HTTPError
\* for an error status, raise URLError when the transport fails, and, to a
\* validator that matches, answer 304, which the opener delivers as a response
\* or raises as an HTTPError.
Answers(srv, h) ==
  { [kind |-> k2, status |-> c, ver |-> 0, ETag |-> 0, LastModified |-> 0] :
      << k2, c >> \in { << "HTTPError", 503 >>, << "URLError", 0 >> } \cup
                      (IF NotModified(srv, h)
                         THEN { << "response", 304 >>, << "HTTPError", 304 >> }
                         ELSE {}) }
  \cup { [kind |-> "response", status |-> 200, ver |-> srv.ver,
          ETag |-> ResponseHeaders(srv).ETag,
          LastModified |-> ResponseHeaders(srv).LastModified] }

\* str(e) of the http.client.IncompleteRead that response.read() raises.
IncompleteRead == "IncompleteRead(0 bytes read)"

\* str(e) of the exception urlopen raised.
ErrorText(a) ==
  IF a.kind = "HTTPError" THEN "HTTP Error 503: Service Unavailable"
  ELSE "<urlopen error timed out>"

\* An except clause that raises every HTTPError again.
ReturnsCachedMut(a) == a.kind = "response" /\ a.status = 304

\* `if response.status == 304: return cache_path`, line 205, and
\* `except HTTPError as e: if e.code == 304: return cache_path`, lines 225-228.
ReturnsCached(a) == a.kind \in {"response", "HTTPError"} /\ a.status = 304

\* The remote archive as a request finds it: as the last request left it, or
\* moved to its next version since.
Moved(srv) ==
  { srv } \cup { [srv EXCEPT !.ver = v] : v \in { srv.ver + 1 } \cap (1..MaxVer) }

\* download_github_zip(CODE_ARCHIVE), lines 233-238, and download_with_etag up to
\* response.read(): a 304 returns the cache path, a 200 goes on to store the body,
\* anything else raises. Metadata that is not JSON makes json.load raise.
download ==
  /\ pc = "download"
  /\ ran' = Append(ran, "download")
  /\ IF cache.meta.kind = "partial"
       THEN /\ RaiseInDownload("JSONDecodeError", "Expecting value")
            /\ failed' = failed \cup {"read_meta"}
            /\ UNCHANGED << headers, resp, server >>
       ELSE \E srv \in Moved(server) :
            \E a \in Answers(srv, RequestHeaders(cache.meta)) :
              /\ server' = srv
              /\ headers' = RequestHeaders(cache.meta)
              /\ resp' = a
              /\ IF ReturnsCached(a)
                   THEN /\ pc' = "extract"
                        /\ UNCHANGED << log, exitCode, failed >>
                   ELSE IF a.kind = "response"
                     THEN /\ pc' = "dl_body"
                          /\ UNCHANGED << log, exitCode, failed >>
                     ELSE /\ RaiseInDownload(a.kind, ErrorText(a))
                          /\ failed' = failed \cup {"download"}
  /\ UNCHANGED << runVars, cloneVars, checkout, repoVars, files, cache, k, envVars,
                  hist, fails, otherVars >>

\* A download that copies the body into the cache file while it reads it: a read
\* that fails leaves what was copied so far.
dl_bodyStreams ==
  /\ pc = "dl_body"
  /\ ran' = ran
  /\ \E ok \in BOOLEAN :
       IF ok
         THEN /\ cache' = [cache EXCEPT !.body = Archive(resp.ver)]
              /\ pc' = "dl_meta"
              /\ UNCHANGED << failed, log, exitCode >>
         ELSE /\ cache' = [cache EXCEPT !.body = Truncated]
              /\ RaiseInDownload("IncompleteRead", IncompleteRead)
              /\ failed' = failed \cup {"download"}
  /\ UNCHANGED << runVars, cloneVars, checkout, repoVars, files, server, headers, resp,
                  k, envVars, hist, fails, otherVars >>

\* data = response.read(), which raises if the connection breaks before the whole
\* body has arrived, then with open(cache_path, "wb") as f: f.write(data).
dl_body ==
  /\ pc = "dl_body"
  /\ ran' = ran
  /\ \E ok \in BOOLEAN :
       IF ok
         THEN /\ cache' = [cache EXCEPT !.body = Archive(resp.ver)]
              /\ pc' = "dl_meta"
              /\ UNCHANGED << failed, log, exitCode >>
         ELSE /\ cache' = cache
              /\ RaiseInDownload("IncompleteRead", IncompleteRead)
              /\ failed' = failed \cup {"download"}
  /\ UNCHANGED << runVars, cloneVars, checkout, repoVars, files, server, headers, resp,
                  k, envVars, hist, fails, otherVars >>

\* with open(meta_path, "w") as f: json.dump(response_meta, f); return cache_path
dl_meta ==
  /\ pc = "dl_meta"
  /\ cache' = [cache EXCEPT !.meta = Meta(resp.ETag, resp.LastModified)]
  /\ pc' = "extract"
  /\ UNCHANGED << runVars, opVars, log, exitCode, cloneVars, checkout, repoVars, files,
                  server, headers, resp, k, envVars, hist, fails, otherVars >>

\* ------------------------------------------------------------- extract_archive

\* root_prefix = members[0].filename.split("/")[0] + "/"
root_prefix == ArchiveMembers[1].filename[1]

\* os.path.normpath of a relative path: a component and the ".." after it cancel.
RECURSIVE normpath(_)
normpath(path) ==
  IF \E p \in 1..(Len(path) - 1) : path[p] # ".." /\ path[p + 1] = ".."
    THEN LET p == CHOOSE q \in 1..(Len(path) - 1) : path[q] # ".." /\ path[q + 1] = ".."
         IN normpath(SubSeq(path, 1, p - 1) \o SubSeq(path, p + 2, Len(path)))
    ELSE path

\* os.path.relpath(filename, root_prefix): the way from the folder root to the
\* file; a file that is not below root is reached through "..". The empty path
\* stands for ".".
relpath(filename, root) ==
  LET path == normpath(filename)
  IN IF path # << >> /\ path[1] = root THEN Tail(path) ELSE << ".." >> \o path

\* member_relpath of the n-th member
member_relpath(n) == relpath(ArchiveMembers[n].filename, root_prefix)

\* An extraction that writes every member.
ShouldWriteAlways(overwrite, exists, rel) == TRUE

\* An extraction without the list of files that are always refreshed.
ShouldWriteNoList(overwrite, exists, rel) == overwrite \/ ~exists

\* The condition under which a file member is written, lines 268-272.
ShouldWrite(overwrite, exists, rel) ==
  overwrite \/ ~exists \/ rel \in force_overwrite

\* The n-th member is a file that this extraction writes.
Writes(n) ==
  /\ n \in 1..Len(ArchiveMembers)
  /\ ~ArchiveMembers[n].is_dir
  /\ ShouldWrite(args.force, files[member_relpath(n)].kind # "none", member_relpath(n))

\* extract_archive up to the loop: warn about an existing target, open the archive.
\* The request and the response that download_with_etag processed are gone.
\* A cache file that is missing or cut short is no zip archive: ZipFile raises.
extract ==
  /\ pc = "extract"
  /\ ran' = Append(ran, "extract")
  /\ IF cache.body.kind = "archive"
       THEN /\ pc' = "extract_member"
            /\ k' = 1
            /\ failed' = failed
            /\ exitCode' = exitCode
            /\ log' = IF checkout.exists
                        THEN Logged("WARNING",
                               IF args.force THEN "Overwrite existing files"
                               ELSE "Existing files are not updated (use --force)", "")
                        ELSE log
       ELSE /\ Uncaught("BadZipFile", "File is not a zip file")
            /\ failed' = failed \cup {"open_archive"}
            /\ k' = k
  /\ headers' = NoHeaders
  /\ resp' = NoResp
  /\ UNCHANGED << runVars, cloneVars, checkout, repoVars, files, cache, server, envVars,
                  hist, fails, otherVars >>

\* One iteration of `for i, member in enumerate(members, 1)`: directories are
\* skipped; a file is written, creating its directories, or skipped as existing.
\* After the last member main changes into the checkout.
extract_member ==
  /\ pc = "extract_member"
  /\ IF k > Len(ArchiveMembers)
       THEN /\ pc' = "create_virtualenv"
            /\ k' = 0
            /\ UNCHANGED << files, checkout >>
       ELSE /\ pc' = pc
            /\ k' = k + 1
            /\ IF Writes(k)
                 THEN /\ files' = [files EXCEPT ![member_relpath(k)] = cache.body]
                      /\ checkout' = [checkout EXCEPT !.exists = TRUE]
                 ELSE UNCHANGED << files, checkout >>
  /\ UNCHANGED << runVars, opVars, log, exitCode, cloneVars, repoVars, dlVars, envVars,
                  hist, fails, otherVars >>

\* -------------------------------------------------------- runtime provisioning

\* A create_virtualenv whose mkdir has no exist_ok: it refuses an existing venv.
create_virtualenvMut ==
  /\ pc = "create_virtualenv"
  /\ ran' = Append(ran, "create_virtualenv")
  /\ IF venv = "none"
       THEN /\ venv' = "ok"
            /\ pc' = "install_packages"
            /\ k' = 1
            /\ UNCHANGED << log, exitCode, failed >>
       ELSE /\ venv' = venv
            /\ Uncaught("OSError", "File exists: .venv/lib64")
            /\ failed' = failed \cup {"mkdir"}
            /\ k' = k
  /\ UNCHANGED << runVars, cloneVars, checkout, repoVars, files, dlVars, installed,
                  hist, fails, otherVars >>

\* venv_path = create_virtualenv(course_path): builds or upgrades the environment
\* of the checkout; a failure of the builder leaves main as an exception.
create_virtualenv ==
  /\ pc = "create_virtualenv"
  /\ ran' = Append(ran, "create_virtualenv")
  /\ \E ok \in BOOLEAN :
       IF ok
         THEN /\ venv' = "ok"
              /\ pc' = "install_packages"
              /\ k' = 1
              /\ UNCHANGED << log, exitCode, failed >>
         ELSE /\ venv' = IF venv = "none" THEN "partial" ELSE venv
              /\ Uncaught("CalledProcessError", CalledProcessError("python -m ensurepip"))
              /\ failed' = failed \cup {"create_virtualenv"}
              /\ k' = k
  /\ UNCHANGED << runVars, cloneVars, checkout, repoVars, files, dlVars, installed,
                  hist, fails, otherVars >>

\* An install loop that collects the failure and lets main go on.
PipFailureMut(pkg) ==
  /\ log' = Logged("WARNING", "Could not install package ", pkg)
  /\ pc' = "setup_vscode"
  /\ exitCode' = exitCode
  /\ failed' = failed \cup {"install_packages"}
  /\ UNCHANGED << k, installed >>

\* An install loop that notes the failure and goes on with the next package.
PipFailureSkips(pkg) ==
  /\ log' = Logged("WARNING", "Could not install package ", pkg)
  /\ exitCode' = exitCode
  /\ failed' = failed \cup {"install_packages"}
  /\ installed' = installed
  /\ IF k = Len(PACKAGES)
       THEN pc' = "setup_vscode" /\ k' = 0
       ELSE pc' = pc /\ k' = k + 1

\* What a failing `pip install` does: run() has check=True and install_packages has
\* no try, so CalledProcessError leaves install_packages and main.
PipFailure(pkg) ==
  /\ Uncaught("CalledProcessError", CalledProcessError("pip install " \o pkg))
  /\ failed' = failed \cup {"install_packages"}
  /\ UNCHANGED << k, installed >>

\* One iteration of `for i, pkg in enumerate(PACKAGES, 1)` of install_packages.
install_packages ==
  /\ pc = "install_packages"
  /\ ran' = Append(ran, "pip install " \o PACKAGES[k])
  /\ \E ok \in BOOLEAN :
       IF ok
         THEN /\ installed' = installed \cup { PACKAGES[k] }
              /\ IF k = Len(PACKAGES)
                   THEN pc' = "setup_vscode" /\ k' = 0
                   ELSE pc' = pc /\ k' = k + 1
              /\ UNCHANGED << log, exitCode, failed >>
         ELSE PipFailure(PACKAGES[k])
  /\ UNCHANGED << runVars, cloneVars, checkout, repoVars, files, dlVars, venv,
                  hist, fails, otherVars >>

\* ------------------------------------------------------------- editor stages

\* setup_vscode(course_path, venv_path): writes .vscode/settings.json and tasks.json.
setup_vscode ==
  /\ pc = "setup_vscode"
  /\ ran' = Append(ran, "setup_vscode")
  /\ pc' = "setup_vscode_global"
  /\ UNCHANGED << runVars, failed, log, exitCode, cloneVars, checkout, repoVars, files,
                  dlVars, k, envVars, hist, fails, otherVars >>

\* setup_vscode_global(~/.config/Code/User): rewrites the key bindings.
setup_vscode_global ==
  /\ pc = "setup_vscode_global"
  /\ ran' = Append(ran, "setup_vscode_global")
  /\ pc' = "manage_vscode_extensions"
  /\ UNCHANGED << runVars, failed, log, exitCode, cloneVars, checkout, repoVars, files,
                  dlVars, k, envVars, hist, fails, otherVars >>

\* A main that calls manage_vscode_extensions whether the editor was found or not.
manage_vscode_extensionsMut ==
  /\ pc = "manage_vscode_extensions"
  /\ ran' = Append(ran, "manage_vscode_extensions")
  /\ pc' = "ext_install"
  /\ k' = 1
  /\ fails' = NoFails
  /\ UNCHANGED << runVars, failed, log, exitCode, cloneVars, checkout, repoVars, files,
                  dlVars, envVars, hist, otherVars >>

\* if has_vscode: manage_vscode_extensions(), up to its first loop.
manage_vscode_extensions ==
  /\ pc = "manage_vscode_extensions"
  /\ IF has_vscode
       THEN /\ ran' = Append(ran, "manage_vscode_extensions")
            /\ pc' = "ext_install"
            /\ k' = 1
       ELSE /\ pc' = "post_install"
            /\ UNCHANGED << ran, k >>
  /\ fails' = NoFails
  /\ UNCHANGED << runVars, failed, log, exitCode, cloneVars, checkout, repoVars, files,
                  dlVars, envVars, hist, otherVars >>

\* The command run for an entry of the install or of the uninstall list. Every
\* install entry is pinned ("@" in ext), so none gets --force.
ExtCommand(list, ext) ==
  IF list = "install" THEN "code --install-extension " \o ext
  ELSE "code --uninstall-extension " \o ext

\* The warning for an entry whose command failed, lines 540 and 542.
ExtWarning(list, ext) ==
  [level |-> "WARNING",
   msg |-> IF list = "install" THEN "Could not install VS Code extension "
           ELSE "Could not uninstall extension (maybe not installed) ",
   arg |-> ext]

\* An except clause that also warns at once.
ExtExceptWarns(list, ext) ==
  /\ fails' = [fails EXCEPT ![list] = Append(@, ext)]
  /\ log' = Append(log, ExtWarning(list, ext))

\* except subprocess.CalledProcessError: fail_install += [ext] (fail_uninstall)
ExtExcept(list, ext) ==
  /\ fails' = [fails EXCEPT ![list] = Append(@, ext)]
  /\ log' = log

\* One iteration of `for ext in VSCODE_EXTENSIONS[list]`: run the command; if it
\* exits non-zero, run() raises CalledProcessError, which the except clause
\* collects. After the last entry the function goes on at next. Both lists of
\* the code have entries, so each loop is entered at its first entry.
ExtStep(list, next) ==
  LET ext == VSCODE_EXTENSIONS[list][k]
      after == IF k = Len(VSCODE_EXTENSIONS[list]) THEN next ELSE pc
      k2 == IF k = Len(VSCODE_EXTENSIONS[list]) THEN 1 ELSE k + 1
  IN /\ ran' = Append(ran, ExtCommand(list, ext))
     /\ \E ok \in BOOLEAN :
          IF ok
            THEN /\ pc' = after
                 /\ k' = k2
                 /\ UNCHANGED << failed, log, exitCode, fails >>
            ELSE /\ failed' = failed \cup { ExtCommand(list, ext) }
                 /\ IF Caught("CalledProcessError")
                      THEN /\ ExtExcept(list, ext)
                           /\ pc' = after
                           /\ k' = k2
                           /\ exitCode' = exitCode
                      ELSE /\ Uncaught("CalledProcessError",
                                       CalledProcessError(ExtCommand(list, ext)))
                           /\ UNCHANGED << k, fails >>

\* for ext in VSCODE_EXTENSIONS["install"]: ...
ext_install ==
  /\ pc = "ext_install"
  /\ ExtStep("install", "ext_uninstall")
  /\ UNCHANGED << runVars, cloneVars, checkout, repoVars, files, dlVars,
                  envVars, hist, otherVars >>

\* for ext in VSCODE_EXTENSIONS["uninstall"]: ...
ext_uninstall ==
  /\ pc = "ext_uninstall"
  /\ ExtStep("uninstall", "ext_warn")
  /\ UNCHANGED << runVars, cloneVars, checkout, repoVars, files, dlVars,
                  envVars, hist, otherVars >>

\* The warnings of `for ext in fail: logger.warning(...)`, one per collected name.
ExtWarnings(list, fail) == [n \in 1..Len(fail) |-> ExtWarning(list, fail[n])]

\* progress.finish() and the two loops over fail_install and fail_uninstall: the
\* summary is logged, the function returns and its locals are gone.
ext_warn ==
  /\ pc = "ext_warn"
  /\ log' = log \o ExtWarnings("install", fails.install)
                \o ExtWarnings("uninstall", fails.uninstall)
  /\ pc' = "post_install"
  /\ k' = 0
  /\ fails' = NoFails
  /\ UNCHANGED << runVars, ran, failed, exitCode, cloneVars, checkout, repoVars, files,
                  dlVars, envVars, hist, otherVars >>

\* update_script.exists(): update.py of the checkout.
HookExists ==
  IF checkout.marker THEN checkout.intact ELSE files[<< "update.py" >>].kind # "none"

\* A main that runs the hook without testing update_script.exists().
post_installAlways ==
  /\ pc = "post_install"
  /\ ran' = Append(ran, "post_install")
  /\ \E ok \in BOOLEAN :
       IF ok
         THEN /\ pc' = "launch"
              /\ UNCHANGED << log, exitCode, failed >>
         ELSE /\ Uncaught("CalledProcessError", CalledProcessError("python3 update.py"))
              /\ failed' = failed \cup {"post_install"}
  /\ UNCHANGED << runVars, cloneVars, checkout, repoVars, files, dlVars, k, envVars,
                  hist, fails, otherVars >>

\* if update_script.exists(): run([python_path, update_script]) with check=True.
post_install ==
  /\ pc = "post_install"
  /\ IF HookExists
       THEN /\ ran' = Append(ran, "post_install")
            /\ \E ok \in BOOLEAN :
                 IF ok
                   THEN /\ pc' = "launch"
                        /\ UNCHANGED << log, exitCode, failed >>
                   ELSE /\ Uncaught("CalledProcessError",
                                    CalledProcessError("python3 update.py"))
                        /\ failed' = failed \cup {"post_install"}
       ELSE /\ pc' = "launch"
            /\ UNCHANGED << ran, log, exitCode, failed >>
  /\ UNCHANGED << runVars, cloneVars, checkout, repoVars, files, dlVars, k, envVars,
                  hist, fails, otherVars >>

\* if has_vscode: run(["code", course_path]) with check=True.
launch ==
  /\ pc = "launch"
  /\ IF has_vscode
       THEN /\ ran' = Append(ran, "launch")
            /\ \E ok \in BOOLEAN :
                 IF ok
                   THEN /\ pc' = "complete"
                        /\ UNCHANGED << log, exitCode, failed >>
                   ELSE /\ Uncaught("CalledProcessError", CalledProcessError("code"))
                        /\ failed' = failed \cup {"launch"}
       ELSE /\ pc' = "complete"
            /\ UNCHANGED << ran, log, exitCode, failed >>
  /\ UNCHANGED << runVars, cloneVars, checkout, repoVars, files, dlVars, k, envVars,
                  hist, fails, otherVars >>

\* main returns after its last two messages; the process ends with status 0.
complete ==
  /\ pc = "complete"
  /\ pc' = "exit"
  /\ exitCode' = 0
  /\ UNCHANGED << runVars, opVars, log, cloneVars, checkout, repoVars, files, dlVars, k,
                  envVars, hist, fails, otherVars >>

\* ------------------------------------------------------------------ interrupts

\* The statements of main, where a KeyboardInterrupt can be delivered.
MainPcs ==
  { "verify_python", "verify_git", "verify_vscode", "check_base", "clone_stage",
    "clone_test", "clone_run", "clone_sleep", "clone_exit", "checkout_stage",
    "download", "dl_body", "dl_meta", "extract", "extract_member",
    "create_virtualenv", "install_packages", "setup_vscode", "setup_vscode_global",
    "manage_vscode_extensions", "ext_install", "ext_uninstall", "ext_warn",
    "post_install", "launch", "complete" } \cup UpdatePcs

\* Where main goes on after an except clause other than those of the update
\* sequence and of the download has caught an exception.
ResumeAfter(p) ==
  IF p = "verify_git" THEN "verify_vscode"
  ELSE IF p = "verify_vscode" THEN "check_base"
  ELSE "clone_sleep"

\* KeyboardInterrupt is raised in the statement main is executing. An except
\* clause that catches it handles it as it handles its other exceptions; if none
\* does, it leaves main. What the interrupted statement was writing stays as it
\* is: a partial clone, a truncated cache file or extracted file, a partial venv.
KeyboardInterrupt ==
  /\ pc \in MainPcs
  /\ hist' = [hist EXCEPT !.intRun = run]
  /\ IF ~Caught("KeyboardInterrupt") THEN Uncaught("KeyboardInterrupt", "")
     ELSE IF pc \in UpdatePcs THEN RaiseInUpdate("KeyboardInterrupt", "")
     ELSE IF pc \in DownloadPcs THEN RaiseInDownload("KeyboardInterrupt", "")
     ELSE /\ pc' = ResumeAfter(pc)
          /\ UNCHANGED << log, exitCode >>
  /\ IF pc = "clone_run" /\ ~checkout.exists
       THEN checkout' \in {checkout} \cup PartialCheckouts
       ELSE checkout' = checkout
  /\ IF pc = "create_virtualenv" /\ venv = "none"
       THEN venv' \in {"none", "partial"}
       ELSE venv' = venv
  /\ cache' \in {cache} \cup
       (IF pc = "dl_body" THEN { [cache EXCEPT !.body = Truncated] } ELSE {}) \cup
       (IF pc = "dl_meta" THEN { [cache EXCEPT !.meta = BadMeta] } ELSE {})
  /\ files' \in {files} \cup
       (IF pc = "extract_member" /\ Writes(k)
          THEN { [files EXCEPT ![member_relpath(k)] = Truncated] } ELSE {})
  /\ UNCHANGED << runVars, opVars, cloneVars, repoVars, server, headers, resp, k,
                  installed, fails, otherVars >>

\* ------------------------------------------------------------- specifications

Next ==
  \/ verify_python
  \/ verify_git
  \/ verify_vscode
  \/ check_base
  \/ clone_stage
  \/ CloneTest
  \/ CloneRun
  \/ CloneSleep
  \/ CloneExit
  \/ checkout_stage
  \/ stash_push
  \/ fetch_tags
  \/ fetch_origin
  \/ rev_parse
  \/ reset_hard
  \/ stash_pop
  \/ download
  \/ dl_body
  \/ dl_meta
  \/ extract
  \/ extract_member
  \/ create_virtualenv
  \/ install_packages
  \/ setup_vscode
  \/ setup_vscode_global
  \/ manage_vscode_extensions
  \/ ext_install
  \/ ext_uninstall
  \/ ext_warn
  \/ post_install
  \/ launch
  \/ complete
  \/ KeyboardInterrupt
  \/ Rerun

\* Successive invocations of the tool on one machine.
Spec == Init /\ [][Next]_vars

\* git_clone_with_retries(url, dest, timeout) called by main on a destination that
\* does not exist, for every timeout up to MaxTimeout; it ends when it returns to
\* main (pc = "checkout_stage") or raises (pc = "exit").
InitClone ==
  /\ run = 1
  /\ args \in { a \in ArgChoices : a.clone \/ a.deep_clone }
  /\ pc = "clone_test"
  /\ has_git = TRUE
  /\ has_vscode = FALSE
  /\ ran = << "clone" >>
  /\ failed = {}
  /\ log = << >>
  /\ exitCode = -1
  /\ timeout \in 0..MaxTimeout
  /\ elapsed = 0
  /\ i = 0
  /\ cloned = FALSE
  /\ stash_result = NoResult
  /\ headers = NoHeaders
  /\ resp = NoResp
  /\ k = 0
  /\ fails = NoFails
  /\ checkout = AbsentCheckout
  /\ files = NoFiles
  /\ repo = EmptyRepo
  /\ hist = [world0 |-> [checkout |-> AbsentCheckout, files |-> NoFiles,
                         repo |-> EmptyRepo],
             marker0 |-> FALSE, intRun |-> 0, repeat |-> TRUE]
  /\ cache = [body |-> Missing, meta |-> NoMeta]
  /\ server = GitHub
  /\ venv = "none"
  /\ installed = {}
  /\ AtRest

NextClone ==
  \/ CloneTest
  \/ CloneRun
  \/ CloneSleep
  \/ CloneExit

SpecClone == InitClone /\ [][NextClone]_vars

\* ------------------------------------------- get_release.py: release selection

\* ------------------------------------------ download_with_etag: one call alone

\* The cache entries a call can find: none; what an earlier call stored from a
\* response with both validators, one of them or none; what an interrupted call
\* left: content without metadata, or content with metadata cut short.
CacheEntries ==
  { [body |-> Missing, meta |-> NoMeta] } \cup
  { [body |-> Archive(v), meta |-> Meta(e, l)] :
      << v, e, l >> \in { t \in (1..MaxVer) \X (0..MaxVer) \X (0..MaxVer) :
                            t[2] \in { 0, t[1] } /\ t[3] \in { 0, t[1] } } } \cup
  { [body |-> b, meta |-> NoMeta] :
      b \in { Truncated } \cup { Archive(v) : v \in 1..MaxVer } } \cup
  { [body |-> Archive(v), meta |-> BadMeta] : v \in 1..MaxVer }

\* main has reached download_github_zip(CODE_ARCHIVE) in archive mode, with any of
\* these cache entries and the remote archive at any version.
InitDownload ==
  /\ run = 1
  /\ args \in { a \in ArgChoices : ~a.clone /\ ~a.deep_clone }
  /\ pc = "download"
  /\ has_git \in BOOLEAN
  /\ has_vscode = FALSE
  /\ ran = << >>
  /\ failed = {}
  /\ log = << >>
  /\ exitCode = -1
  /\ timeout = 0
  /\ elapsed = 0
  /\ i = 0
  /\ cloned = FALSE
  /\ stash_result = NoResult
  /\ headers = NoHeaders
  /\ resp = NoResp
  /\ k = 0
  /\ fails = NoFails
  /\ checkout = AbsentCheckout
  /\ files = NoFiles
  /\ repo = EmptyRepo
  /\ hist = [world0 |-> [checkout |-> AbsentCheckout, files |-> NoFiles,
                         repo |-> EmptyRepo],
             marker0 |-> FALSE, intRun |-> 0, repeat |-> TRUE]
  /\ cache \in CacheEntries
  /\ server \in { [GitHub EXCEPT !.ver = v] : v \in 1..MaxVer }
  /\ venv = "none"
  /\ installed = {}
  /\ AtRest

NextDownload ==
  \/ download
  \/ dl_body
  \/ dl_meta

SpecDownload == InitDownload /\ [][NextDownload]_vars

\* Text is a sequence of characters. "u0663" stands for the one character
\* ARABIC-INDIC DIGIT THREE: a decimal digit that is not an ASCII digit.
AsciiDigits == << "0", "1", "2", "3", "4", "5", "6", "7", "8", "9" >>
IsAsciiDigit(c) == \E d \in 1..10 : AsciiDigits[d] = c

\* The characters \d of a str pattern matches: every Unicode decimal digit.
IsDigit(c) == IsAsciiDigit(c) \/ c = "u0663"

\* str.startswith(prefix)
StartsWith(text, prefix) ==
  Len(prefix) <= Len(text) /\ SubSeq(text, 1, Len(prefix)) = prefix

\* Where the longest run of \d characters that starts at position p ends.
RECURSIVE DigitsEnd(_, _)
DigitsEnd(tag, p) ==
  IF p <= Len(tag) /\ IsDigit(tag[p]) THEN DigitsEnd(tag, p + 1) ELSE p

\* Where (?:\.\d+){0,n} ends when it starts at position p: the pattern is greedy,
\* and giving a group back never helps, since what follows a group it gave back
\* starts with "." and the rest of the pattern cannot.
RECURSIVE GroupsEnd(_, _, _)
GroupsEnd(tag, p, n) ==
  IF n > 0 /\ p <= Len(tag) /\ tag[p] = "." /\ DigitsEnd(tag, p + 1) > p + 1
    THEN GroupsEnd(tag, DigitsEnd(tag, p + 1), n - 1)
    ELSE p

\* A parse_tag whose pattern has no leading v and any number of components.
parse_tagLax(tag) ==
  LET start == IF Len(tag) >= 1 /\ tag[1] = "v" THEN 2 ELSE 1
      e == IF DigitsEnd(tag, start) > start
             THEN GroupsEnd(tag, DigitsEnd(tag, start), Len(tag))
             ELSE 0
  IN IF e = Len(tag) + 1 THEN [version_tag |-> tag, label |-> << >>]
     ELSE IF e > 0 /\ e <= Len(tag) /\ tag[e] = "-"
       THEN [version_tag |-> SubSeq(tag, 1, e - 1), label |-> SubSeq(tag, e + 1, Len(tag))]
     ELSE [version_tag |-> << >>, label |-> << >>]

\* parse_tag(tag): the groups of re.match(r"^(v\d+(?:\.\d+){0,2})(?:-(.+))?$", tag),
\* or (None, None); the empty text stands for None. No tag holds a line break.
parse_tag(tag) ==
  LET e == IF Len(tag) >= 1 /\ tag[1] = "v" /\ DigitsEnd(tag, 2) > 2
             THEN GroupsEnd(tag, DigitsEnd(tag, 2), 2)
             ELSE 0
  IN IF e = Len(tag) + 1 THEN [version_tag |-> tag, label |-> << >>]
     ELSE IF e > 0 /\ e < Len(tag) /\ tag[e] = "-"
       THEN [version_tag |-> SubSeq(tag, 1, e - 1), label |-> SubSeq(tag, e + 1, Len(tag))]
     ELSE [version_tag |-> << >>, label |-> << >>]

\* re.match(label_regex, label) for a pattern of ordinary characters: the label
\* starts with them.
LabelMatches(regex, label) == StartsWith(label, regex)

\* text.split(".")
RECURSIVE Split(_)
Split(text) ==
  IF \E p \in 1..Len(text) : text[p] = "."
    THEN LET p == CHOOSE q \in 1..Len(text) :
                     text[q] = "." /\ \A r \in 1..(q - 1) : text[r] # "."
         IN << SubSeq(text, 1, p - 1) >> \o Split(SubSeq(text, p + 1, Len(text)))
    ELSE << text >>

\* int(text) for a run of ASCII digits
RECURSIVE int(_)
int(text) ==
  IF text = << >> THEN 0
  ELSE 10 * int(SubSeq(text, 1, Len(text) - 1))
       + (CHOOSE d \in 1..10 : AsciiDigits[d] = text[Len(text)]) - 1

\* packaging's Version accepts only ASCII digits in the release segment
\* ([0-9]+(?:\.[0-9]+)*); anything else raises InvalidVersion.
InvalidVersion(text) == \E p \in 1..Len(text) : text[p] # "." /\ ~IsAsciiDigit(text[p])

\* Version(text).release
Version(text) == [n \in 1..Len(Split(text)) |-> int(Split(text)[n])]

\* The key Version compares by: the release without its trailing zeros.
RECURSIVE StripZeros(_)
StripZeros(release) ==
  IF release # << >> /\ release[Len(release)] = 0
    THEN StripZeros(SubSeq(release, 1, Len(release) - 1))
    ELSE release

\* a < b for tuples of integers
TupleLess(a, b) ==
  \E p \in 1..(Len(b)) :
     /\ \A q \in 1..(p - 1) : q <= Len(a) /\ a[q] = b[q]
     /\ p > Len(a) \/ a[p] < b[p]

\* a < b for Version objects
VersionLess(a, b) == TupleLess(StripZeros(a), StripZeros(b))

\* A max that returns the last of the entries instead of the greatest.
MaxMatchLast(list) == list[Len(list)]

\* max(matches, key=lambda x: x[0]): the first entry that no entry exceeds.
MaxMatch(list) ==
  list[CHOOSE j \in 1..Len(list) :
         /\ \A n \in 1..Len(list) : ~VersionLess(list[j].version_obj, list[n].version_obj)
         /\ \A n \in 1..(j - 1) : VersionLess(list[n].version_obj, list[j].version_obj)]

\* The body of `for release in releases` for one release: what it appends to matches.
Matched(release) ==
  LET parsed == parse_tag(release.tag_name)
  IN IF parsed.version_tag = << >> THEN << >>
     ELSE IF version_prefix # << >> /\ ~StartsWith(parsed.version_tag, version_prefix)
       THEN << >>
     ELSE IF label_regex # << >> /\
             (parsed.label = << >> \/ ~LabelMatches(label_regex, parsed.label))
       THEN << >>
     ELSE IF InvalidVersion(Tail(parsed.version_tag)) THEN << >>
     ELSE << [version_obj |-> Version(Tail(parsed.version_tag)), release |-> release] >>

\* One iteration of `for release in releases`, lines 42-54.
select_loop ==
  /\ pc = "select_loop"
  /\ k <= Len(releases)
  /\ matches' = matches \o Matched(releases[k])
  /\ k' = k + 1
  /\ pc' = IF k = Len(releases) THEN "select_return" ELSE pc
  /\ UNCHANGED << runVars, opVars, log, exitCode, cloneVars, checkout, repoVars, files,
                  dlVars, envVars, hist, fails, releases, version_prefix, label_regex,
                  selected, zipVars >>

\* if not matches: return None / return max(matches, key=lambda x: x[0])[1]
select_return ==
  /\ pc = "select_return"
  /\ selected' = IF matches = << >> THEN NoRelease ELSE MaxMatch(matches).release
  /\ pc' = "selected"
  /\ UNCHANGED << runVars, opVars, log, exitCode, cloneVars, checkout, repoVars, files,
                  dlVars, k, envVars, hist, fails, releases, version_prefix, label_regex,
                  matches, zipVars >>

\* The tag names the releases are drawn from: the three of the example, one that
\* matches the prefix v1.2 as text only, and tags the pattern refuses: no leading
\* v, four components, a component that is no number, an empty label; and one
\* whose digit is not an ASCII digit.
TagNames ==
  { << "v", "1", ".", "2", ".", "0" >>,
    << "v", "1", ".", "3", ".", "0", "-", "b", "e", "t", "a" >>,
    << "v", "1", ".", "2", ".", "5" >>,
    << "v", "1", ".", "2", "0" >>,
    << "9", ".", "0", ".", "0" >>,
    << "v", "9", ".", "0", ".", "0", ".", "0" >>,
    << "v", "9", ".", "x" >>,
    << "v", "9", ".", "0", "-" >>,
    << "v", "u0663" >> }

\* The sequences of at most n elements of S.
RECURSIVE SeqsUpTo(_, _)
SeqsUpTo(S, n) ==
  IF n = 0 THEN { << >> }
  ELSE SeqsUpTo(S, n - 1) \cup
       { Append(q, x) : q \in { r \in SeqsUpTo(S, n - 1) : Len(r) = n - 1 }, x \in S }

\* main at rest while another function is examined on its own.
MainAtRest ==
  /\ run = 1
  /\ has_git = FALSE
  /\ has_vscode = FALSE
  /\ ran = << >>
  /\ failed = {}
  /\ log = << >>
  /\ exitCode = -1
  /\ timeout = 0
  /\ elapsed = 0
  /\ i = 0
  /\ cloned = FALSE
  /\ stash_result = NoResult
  /\ headers = NoHeaders
  /\ resp = NoResp
  /\ fails = NoFails
  /\ checkout = AbsentCheckout
  /\ files = NoFiles
  /\ repo = EmptyRepo
  /\ hist = [world0 |-> [checkout |-> AbsentCheckout, files |-> NoFiles,
                         repo |-> EmptyRepo],
             marker0 |-> FALSE, intRun |-> 0, repeat |-> TRUE]
  /\ cache = [body |-> Missing, meta |-> NoMeta]
  /\ server = GitHub
  /\ venv = "none"
  /\ installed = {}

\* select_latest_matching_release(releases, args.version, args.label), line 103,
\* for every list of at most MaxReleases releases, without and with each filter.
InitRelease ==
  /\ MainAtRest
  /\ args = [clone |-> FALSE, deep_clone |-> FALSE, force |-> FALSE]
  /\ releases \in SeqsUpTo({ [tag_name |-> t] : t \in TagNames }, MaxReleases)
  /\ version_prefix \in { << >>, << "v", "1", ".", "2" >>, << "v", "9" >> }
  /\ label_regex \in { << >>, << "b", "e", "t", "a" >> }
  /\ matches = << >>
  /\ selected = NoRelease
  /\ k = 1
  /\ pc = IF releases = << >> THEN "select_return" ELSE "select_loop"
  /\ members = << >>
  /\ present = {}
  /\ written = {}

NextRelease ==
  \/ select_loop
  \/ select_return

SpecRelease == InitRelease /\ [][NextRelease]_vars

\* ---------------------------------------------- extract_archive on its own

\* The entries the archives of SpecExtract are made of: the root folder, files
\* below it, a file below another top-level folder, and a file whose name climbs
\* out of the root folder.
MemberChoices ==
  { [filename |-> << "root" >>, is_dir |-> TRUE],
    [filename |-> << "root", "update.py" >>, is_dir |-> FALSE],
    [filename |-> << "root", "sub", "notes.txt" >>, is_dir |-> FALSE],
    [filename |-> << "other", "notes.txt" >>, is_dir |-> FALSE],
    [filename |-> << "root", "..", "evil.txt" >>, is_dir |-> FALSE] }

\* with zipfile.ZipFile(...) as zip_ref: members = zip_ref.infolist();
\* root_prefix = members[0].filename...: an archive without members raises
\* IndexError.
zip_open ==
  /\ pc = "zip_open"
  /\ IF members = << >>
       THEN pc' = "zip_raised" /\ k' = k
       ELSE pc' = "zip_member" /\ k' = 1
  /\ UNCHANGED << runVars, opVars, log, exitCode, cloneVars, checkout, repoVars, files,
                  dlVars, envVars, hist, fails, relVars, zipVars >>

\* One iteration of `for i, member in enumerate(members, 1)` for any archive:
\* target_path is extract_to joined with member_relpath, and the file system
\* resolves a leading ".." of member_relpath to the folder above extract_to.
\* Opening extract_to itself (member_relpath ".") for writing raises.
zip_member ==
  /\ pc = "zip_member"
  /\ LET member == members[k]
         rel == relpath(member.filename, members[1].filename[1])
         after == IF k = Len(members) THEN "zip_done" ELSE pc
     IN IF member.is_dir \/ ~ShouldWrite(args.force, rel \in present, rel)
          THEN /\ pc' = after
               /\ k' = k + 1
               /\ UNCHANGED << present, written >>
          ELSE IF rel = << >>
            THEN /\ pc' = "zip_raised"
                 /\ present' = present \cup { << >> }
                 /\ UNCHANGED << k, written >>
          ELSE /\ pc' = after
               /\ k' = k + 1
               /\ present' = present \cup { << >>, rel }
               /\ written' = written \cup { rel }
  /\ UNCHANGED << runVars, opVars, log, exitCode, cloneVars, checkout, repoVars, files,
                  dlVars, envVars, hist, fails, relVars, members >>

\* extract_archive(archive_file, course_path, overwrite=args.force) for every
\* archive of at most MaxMembers entries, without and with --force, into a target
\* that does not exist, is empty, or holds update.py.
InitExtract ==
  /\ MainAtRest
  /\ args \in { a \in ArgChoices : ~a.clone /\ ~a.deep_clone }
  /\ members \in SeqsUpTo(MemberChoices, MaxMembers)
  /\ present \in { {}, { << >> }, { << >>, << "update.py" >> } }
  /\ written = {}
  /\ pc = "zip_open"
  /\ k = 0
  /\ releases = << >>
  /\ version_prefix = << >>
  /\ label_regex = << >>
  /\ matches = << >>
  /\ selected = NoRelease

NextExtract ==
  \/ zip_open
  \/ zip_member

SpecExtract == InitExtract /\ [][NextExtract]_vars

\* ------------------------------------------------------------------ properties

\* Operation op was started in this invocation.
Ran(op) == \E j \in 1..Len(ran) : ran[j] = op

\* A record of this level with this text was logged in this invocation.
LoggedMsg(level, msg) ==
  \E l \in 1..Len(log) : log[l].level = level /\ log[l].msg = msg

CloneMode == args.clone \/ args.deep_clone
CloneRan == Ran("clone")
UpdateRan == \E j \in 1..Len(ran) : ran[j] \in UpdatePcs
ArchiveRan == Ran("download") \/ Ran("extract")
UpdateFailedLogged == LoggedMsg("ERROR", "Update failed: ")
UpdateSkipped ==
  LoggedMsg("WARNING", "Git command not found, cannot update existing git project")
InterruptedRun == hist.intRun = run

\* C1, as stated: the checkout stage runs exactly one of update (.git present at
\* the start), clone (else, clone mode) and archive download + extraction (else);
\* no invocation runs two of them.
C1_SingleCheckoutAction ==
  /\ hist.marker0 => ~CloneRan /\ ~ArchiveRan
  /\ ~hist.marker0 /\ CloneMode => ~UpdateRan /\ ~ArchiveRan
  /\ ~hist.marker0 /\ ~CloneMode => ~UpdateRan /\ ~CloneRan

\* C1, amended: with .git present at the start neither the cloner nor the archive
\* download runs; without it and without clone mode only download + extraction
\* run; without it and in clone mode the cloner runs first, and after it the update
\* runs if .git is then present and download + extraction if it is not. Update
\* and archive download never run in the same invocation, and extraction only
\* after the download.
C1_CheckoutDecision ==
  LET cloner == CloneRan
      update == UpdateRan
      archive == ArchiveRan
  IN /\ hist.marker0 => ~cloner /\ ~archive
     /\ ~hist.marker0 /\ ~CloneMode => ~update /\ ~cloner
     /\ ~hist.marker0 /\ CloneMode /\ (update \/ archive) => ran[1] = "clone"
     /\ ~(update /\ archive)
     /\ update => checkout.marker
     /\ archive => ~checkout.marker
     /\ Ran("extract") => Ran("download")

\* C1, witness: an invocation that cloned, then ran the whole update sequence, and
\* completed.
C1_ClonedThenUpdated ==
  CloneRan /\ cloned /\ Ran("stash_pop") /\ pc = "exit" /\ exitCode = 0

\* C2, as stated: git_clone_with_retries returns normally only if some clone
\* attempt succeeded, whatever the failed attempts leave at the destination.
C2_ReturnsOnlyAfterSuccess ==
  (CloneRan /\ pc = "checkout_stage") => cloned

\* C3, as stated: with timeout N > 0 and every attempt failing, no attempt starts
\* once the elapsed time has reached N, at most N attempts are made, at least one
\* is made before the loop ends, and the function ends by raising.
C3_RetryBound ==
  (CloneRan /\ timeout > 0 /\ ~cloned) =>
     /\ pc = "clone_run" => elapsed < timeout
     /\ i + (IF pc = "clone_run" THEN 1 ELSE 0) <= timeout
     /\ pc \in {"clone_exit", "checkout_stage", "exit"} => i >= 1
     /\ pc # "checkout_stage"

\* The part of C3 that is about the loop alone: it holds.
RetryLoopBounded ==
  (CloneRan /\ timeout > 0 /\ ~cloned) =>
     /\ pc = "clone_run" => elapsed < timeout
     /\ i + (IF pc = "clone_run" THEN 1 ELSE 0) <= timeout
     /\ pc \in {"clone_exit", "checkout_stage", "exit"} => i >= 1

\* C4, as stated: when a step of the update sequence fails, stash pop included, no
\* later step of the sequence runs and an update error is logged.
C4_StepFailureSurfaces ==
  \A j \in 1..Len(ran) :
     (ran[j] \in UpdatePcs /\ ran[j] \in failed) =>
        /\ \A m \in (j + 1)..Len(ran) : ran[m] \notin UpdatePcs
        /\ UpdateFailedLogged

\* C5: in the first invocation on a git checkout whose uncommitted edit does not
\* touch the lines the remote changed, once the update sequence has run to its
\* last step with git itself working, no error is logged, the edit is back in the
\* working tree without conflict markers, and the branch is at the remote tip.
C5_UpdateKeepsLocalEdit ==
  ( /\ run = 1
    /\ hist.world0.checkout.marker
    /\ hist.world0.repo.wt.edit.id = "local"
    /\ hist.world0.repo.wt.edit.lines = "disjoint"
    /\ Ran("stash_pop")
    /\ stash_result # PopFatal ) =>
     /\ \A l \in 1..Len(log) : log[l].level # "ERROR"
     /\ stash_result = PopDropped
     /\ repo.wt.edit.id = "local"
     /\ ~repo.wt.markers
     /\ repo.head = "tip"

\* C5, witness: such an update, in a repository that also held an older stash
\* entry, in an invocation that completed.
C5_UpdatedWithLocalEdit ==
  /\ run = 1
  /\ hist.world0.repo.wt.edit.id = "local"
  /\ hist.world0.repo.wt.edit.lines = "disjoint"
  /\ hist.world0.repo.stash # << >>
  /\ stash_result = PopDropped
  /\ pc = "exit"
  /\ exitCode = 0

\* C6: when `git stash pop` reports a conflict, the error logged for the update
\* carries the conflict message, which no other update failure carries; the stash
\* entry that conflicted is still the top of the stash, the conflict markers are
\* still in the working tree, and no git command ran after the pop.
C6_ConflictIsDistinct ==
  /\ stash_result = PopConflict =>
       /\ \E l \in 1..Len(log) :
            log[l] = [level |-> "ERROR", msg |-> "Update failed: ",
                      arg |-> ConflictMessage]
       /\ repo.stash # << >>
       /\ Head(repo.stash).edit = repo.wt.edit
       /\ repo.wt.markers
       /\ \A j \in 1..Len(ran) :
            ran[j] = "stash_pop" => \A m \in (j + 1)..Len(ran) : ran[m] \notin UpdatePcs
  /\ \A l \in 1..Len(log) :
       (log[l].msg = "Update failed: " /\ log[l].arg = ConflictMessage)
          => stash_result = PopConflict

\* C6, witness: an invocation whose stash pop conflicted and that completed.
C6_ConflictReported ==
  stash_result = PopConflict /\ pc = "exit" /\ exitCode = 0 /\ ~InterruptedRun

\* C7: after an update that failed or was skipped for want of git, unless the
\* invocation is interrupted, the next stage is the creation of the virtual
\* environment.
C7_UpdateFailureNotFatal ==
  ((UpdateFailedLogged \/ UpdateSkipped) /\ ~InterruptedRun) =>
     (pc = "create_virtualenv" \/ Ran("create_virtualenv"))

\* C7, witness: an invocation whose update failed and that went through every
\* later stage and ended with status 0.
C7_FailedUpdateThenComplete ==
  /\ UpdateFailedLogged
  /\ Ran("create_virtualenv")
  /\ Ran("setup_vscode_global")
  /\ ~InterruptedRun
  /\ pc = "exit"
  /\ exitCode = 0

\* The same for a skipped update.
SkippedUpdateThenComplete ==
  /\ UpdateSkipped
  /\ Ran("create_virtualenv")
  /\ Ran("setup_vscode_global")
  /\ ~InterruptedRun
  /\ pc = "exit"
  /\ exitCode = 0

\* C8: once the creation of the virtual environment or a package install has
\* failed, the process has exited with status 1 and none of the later stages
\* (editor configuration, extensions, post-install hook, editor launch) and no
\* further install has run.
C8_ProvisioningFatal ==
  (failed \cap {"create_virtualenv", "install_packages"} # {}) =>
     /\ pc = "exit"
     /\ exitCode = 1
     /\ \A j \in 1..Len(ran) :
          ran[j] \notin {"setup_vscode", "setup_vscode_global",
                         "manage_vscode_extensions", "post_install", "launch"}
     /\ \/ ran[Len(ran)] = "create_virtualenv"
        \/ \E n \in 1..Len(PACKAGES) :
             ran[Len(ran)] = "pip install " \o PACKAGES[n]

\* C8, witness: the install of a package other than the first failed.
C8_SecondInstallFailed ==
  /\ "install_packages" \in failed
  /\ installed # {}
  /\ run = 1

\* C9: an invocation in which KeyboardInterrupt was raised has ended, its last
\* message is the critical "Interrupted", and it logged no critical "Error: ".
C9_InterruptEndsRun ==
  InterruptedRun =>
     /\ pc = "exit"
     /\ log[Len(log)] = [level |-> "CRITICAL", msg |-> "Interrupted", arg |-> ""]
     /\ ~LoggedMsg("CRITICAL", "Error: ")

\* C9, witness: an interrupt inside the update sequence, between stash push and
\* stash pop.
C9_InterruptedInUpdate ==
  InterruptedRun /\ Ran("stash_push") /\ ~Ran("stash_pop") /\ pc = "exit"

\* The same inside the download wrapper.
InterruptedInDownload ==
  InterruptedRun /\ ran # << >> /\ ran[Len(ran)] = "download" /\ pc = "exit"

\* The state a first invocation in archive mode on a machine without checkout
\* ends in, if nothing fails and the remote stays at its first version.
AfterCleanArchiveRun ==
  /\ exitCode = 0
  /\ files = [p \in TargetPaths |-> Archive(1)]
  /\ cache = [body |-> Archive(1), meta |-> Meta(1, 1)]
  /\ venv = "ok"
  /\ installed = { PACKAGES[n] : n \in 1..Len(PACKAGES) }

\* The failures that come from outside: the server, the venv builder, pip, the
\* hook, the editor.
OutsideFailures ==
  { "download", "create_virtualenv", "install_packages", "post_install", "launch" }

\* An invocation in archive mode without --force, on a machine that had no
\* checkout before the first invocation, has ended with no failure from outside
\* and the remote at its first version.
ArchiveRunEnded ==
  /\ pc = "exit"
  /\ ~InterruptedRun
  /\ ~hist.world0.checkout.exists
  /\ ~CloneMode
  /\ ~args.force
  /\ ~checkout.marker
  /\ server.ver = 1
  /\ failed \cap OutsideFailures = {}
  /\ \A l \in 1..Len(log) : log[l].arg # "Python 3.12 required"
                            /\ log[l].arg # "Target folder does not exist"

\* The reference of C10: a first invocation that is never interrupted.
CleanArchiveRunConverges ==
  (run = 1 /\ ArchiveRunEnded) => AfterCleanArchiveRun

\* C10, as stated: after an invocation that was interrupted at any point, the next
\* invocation, if not interrupted, completes and leaves the checkout, the cache and
\* the virtual environment as an invocation that was never interrupted.
C10_RerunAfterInterruptConverges ==
  (run = 2 /\ hist.intRun = 1 /\ ArchiveRunEnded) => AfterCleanArchiveRun

\* The world a first invocation with arguments a leaves on a machine without
\* checkout, if nothing fails: the extracted archive, or the clone at the remote
\* tip, and in it the virtual environment with every package.
AfterCleanRun(a) ==
  /\ IF a.clone \/ a.deep_clone
       THEN /\ checkout = [exists |-> TRUE, marker |-> TRUE, intact |-> TRUE]
            /\ repo = ClonedRepo
            /\ files = NoFiles
       ELSE /\ checkout = [exists |-> TRUE, marker |-> FALSE, intact |-> FALSE]
            /\ repo = EmptyRepo
            /\ files = [p \in TargetPaths |-> Archive(1)]
  /\ venv = "ok"
  /\ installed = { PACKAGES[n] : n \in 1..Len(PACKAGES) }

\* The invocation has ended without a failure from outside (server, git, venv
\* builder, pip, hook, editor, missing interpreter or base folder) and without an
\* interrupt.
EndedUndisturbed ==
  /\ pc = "exit"
  /\ ~InterruptedRun
  /\ failed \cap (OutsideFailures \cup UpdatePcs \cup {"clone"}) \subseteq {"stash_pop"}
  /\ stash_result # PopFatal
  /\ \A l \in 1..Len(log) :
       log[l].arg \notin { "Python 3.12 required", "Target folder does not exist",
                           "git command not found, cannot clone project" }

\* C11: on a machine without checkout, with the remote unchanged, the first
\* invocation and a second one with the same arguments right after it, each ending
\* without interrupt or outside failure, exit with status 0 and leave the same
\* checkout, repository and virtual environment; the second one runs no clone.
C11_SecondRunChangesNothing ==
  ( /\ run <= 2
    /\ hist.repeat
    /\ ~hist.world0.checkout.exists
    /\ server.ver = 1
    /\ EndedUndisturbed
    /\ CloneMode /\ run = 1 => cloned ) =>
     /\ exitCode = 0
     /\ AfterCleanRun(args)
     /\ run = 2 => ~CloneRan

\* C11, witness: a second invocation in clone mode that ended so.
C11_SecondCloneRunEnded ==
  /\ run = 2
  /\ hist.repeat
  /\ ~hist.world0.checkout.exists
  /\ CloneMode
  /\ EndedUndisturbed
  /\ Ran("stash_pop")

\* The same in archive mode.
SecondArchiveRunEnded ==
  /\ run = 2
  /\ hist.repeat
  /\ ~hist.world0.checkout.exists
  /\ ~CloneMode
  /\ EndedUndisturbed
  /\ Ran("extract")

\* C12: the process has an exit status exactly when the invocation has ended; the
\* status is 1 if an exception other than KeyboardInterrupt left main (the critical
\* "Error: " is logged) and 0 otherwise: after main returned, with or without a
\* logged update failure, and after an interrupt.
C12_ExitStatus ==
  /\ pc # "exit" <=> exitCode = -1
  /\ pc = "exit" =>
       /\ exitCode \in {0, 1}
       /\ exitCode = 1 <=> LoggedMsg("CRITICAL", "Error: ")
       /\ InterruptedRun => exitCode = 0
       /\ (failed \subseteq UpdatePcs /\ ~LoggedMsg("CRITICAL", "Error: ")) => exitCode = 0

\* C12, witness: an invocation interrupted after its update failed and was logged.
C12_InterruptedAfterFailedUpdate ==
  pc = "exit" /\ InterruptedRun /\ UpdateFailedLogged /\ exitCode = 0

\* A fatal error after a logged update failure.
FatalAfterFailedUpdate ==
  pc = "exit" /\ UpdateFailedLogged /\ "install_packages" \in failed /\ exitCode = 1

\* C13: a call of download_with_etag that the server answers with 304, delivered
\* as a response or raised as an HTTPError, finds a cache entry (metadata and
\* content), changes neither file, and returns to main, which goes on to extract
\* the file at the cache path.
C13_NotModifiedKeepsCache ==
  [][ (pc = "download" /\ resp'.status = 304) =>
        /\ cache.meta.kind = "json"
        /\ cache.body.kind # "none"
        /\ cache' = cache
        /\ pc' = "extract" ]_vars

\* C13, witness: the call returned after a 304 raised as an HTTPError, with the
\* entry of the first version in the cache.
C13_ReturnedOnRaised304 ==
  /\ pc = "extract"
  /\ resp.kind = "HTTPError"
  /\ resp.status = 304
  /\ cache = [body |-> Archive(1), meta |-> Meta(1, 1)]

\* The same for a 304 delivered as a response.
ReturnedOn304Response ==
  pc = "extract" /\ resp.kind = "response" /\ resp.status = 304

\* C14, as stated: when download_with_etag returns after a 200, the cache holds the
\* body and the validators of that response; and whenever it returns, after
\* whatever calls came before, the stored metadata describes the stored content.
C14_MetadataDescribesContent ==
  pc = "extract" =>
     /\ resp.status = 200 =>
          /\ resp.ver = server.ver
          /\ cache = [body |-> Archive(resp.ver),
                      meta |-> Meta(resp.ETag, resp.LastModified)]
     /\ cache.meta.kind = "json"
     /\ cache.body = Archive(cache.meta.ETag)

\* The same over the first two invocations on a machine without a checkout, as
\* long as none was interrupted: it holds.
UninterruptedMetadataDescribesContent ==
  (run <= 2 /\ ~hist.world0.checkout.exists /\ hist.intRun = 0) =>
     C14_MetadataDescribesContent

\* A refresh: the call returned with the second version in place of the first.
RefreshedCache ==
  /\ pc = "extract"
  /\ resp.status = 200
  /\ run = 2
  /\ cache = [body |-> Archive(2), meta |-> Meta(2, 2)]

\* C15, as stated: in every state the metadata file exists only if the content
\* file exists, a call that returns on a 304 returns the path of an existing file,
\* and the two files are written as a pair: the metadata is that of the content,
\* and no content is stored without its metadata.
C15_CachePairAtomic ==
  /\ cache.meta.kind # "none" => cache.body.kind # "none"
  /\ (pc = "extract" /\ resp.status = 304) => cache.body.kind # "none"
  /\ cache.meta.kind = "json" => cache.body = Archive(cache.meta.ETag)
  /\ cache.body.kind # "none" => cache.meta.kind = "json"

\* The part of C15 that is about existence alone: it holds.
CacheMetaHasContent ==
  /\ cache.meta.kind # "none" => cache.body.kind # "none"
  /\ (pc = "extract" /\ resp.status = 304) => cache.body.kind # "none"

\* What str(e) can be for the exceptions raised inside download_with_etag.
DownloadCauses ==
  { "HTTP Error 503: Service Unavailable", "<urlopen error timed out>",
    "Expecting value", IncompleteRead }

\* C16: when the download failed (an HTTP error status other than 304, a transport
\* error, unreadable metadata), main has ended with status 1 on an error whose
\* message is "Download failed: ", the URL, and the cause; no 304 was answered and
\* the extraction has not run.
C16_DownloadFailurePropagates ==
  (failed \cap {"download", "read_meta"} # {}) =>
     /\ pc = "exit"
     /\ exitCode = 1
     /\ ~Ran("extract")
     /\ resp.status # 304
     /\ \E cause \in DownloadCauses :
          log[Len(log)] = [level |-> "CRITICAL", msg |-> "Error: ",
                           arg |-> "Download failed: " \o CODE_ARCHIVE \o "\n" \o cause]

\* C16, witness: the transport failed.
C16_TransportFailed ==
  "download" \in failed /\ resp.kind = "URLError" /\ pc = "exit"

\* The same for an HTTP error status.
HTTPErrorStatus ==
  "download" \in failed /\ resp.kind = "HTTPError" /\ resp.status = 503 /\ pc = "exit"

\* C17: no step of an extraction without --force, interrupted or not, changes a
\* file of the target that exists and is not in force_overwrite.
C17_ExtractionKeepsExisting ==
  [][ (pc \in {"extract", "extract_member"} /\ ~args.force) =>
        \A p \in TargetPaths :
           (files[p].kind # "none" /\ p \notin force_overwrite) => files'[p] = files[p]
    ]_vars

\* C17, witness: an extraction without --force has ended on a target that held the
\* student's update.py and notes.txt: notes.txt is the student's, update.py is the
\* archive's.
C17_KeptStudentFile ==
  /\ pc = "create_virtualenv"
  /\ Ran("extract")
  /\ ~args.force
  /\ run = 1
  /\ hist.world0.files = [p \in TargetPaths |-> Student]
  /\ files[<< "notes.txt" >>] = Student
  /\ files[<< "update.py" >>] = cache.body

\* The extraction of this invocation has dealt with the n-th member: the loop is
\* past it, or extract_archive has returned.
MemberDone(n) ==
  /\ Ran("extract")
  /\ "open_archive" \notin failed
  /\ \/ pc = "extract_member" /\ n < k
     \/ pc = "create_virtualenv"
     \/ Ran("create_virtualenv")

\* C18: once an extraction has dealt with a file member, the target file exists;
\* its content is the member's if --force is set, or its relative path is in
\* force_overwrite, or (first invocation) it did not exist before.
C18_ExtractionWrites ==
  \A n \in 1..Len(ArchiveMembers) :
     (~ArchiveMembers[n].is_dir /\ MemberDone(n)) =>
        /\ member_relpath(n) \in TargetPaths
        /\ files[member_relpath(n)].kind # "none"
        /\ (args.force \/ member_relpath(n) \in force_overwrite)
             => files[member_relpath(n)] = cache.body
        /\ (run = 1 /\ hist.world0.files[member_relpath(n)].kind = "none")
             => files[member_relpath(n)] = cache.body

\* C18, witness: an extraction without --force has replaced the student's
\* update.py, written the missing notes.txt, and returned.
C18_ReplacedForcedFile ==
  /\ pc = "create_virtualenv"
  /\ Ran("extract")
  /\ ~args.force
  /\ run = 1
  /\ hist.world0.files[<< "update.py" >>] = Student
  /\ hist.world0.files[<< "notes.txt" >>] = Missing
  /\ files = [p \in TargetPaths |-> cache.body]

\* With --force every file of the student's is replaced.
ForcedExtraction ==
  /\ pc = "create_virtualenv"
  /\ Ran("extract")
  /\ args.force
  /\ run = 1
  /\ hist.world0.files = [p \in TargetPaths |-> Student]
  /\ files = [p \in TargetPaths |-> cache.body]

\* The entries of both lists in the order the function takes them.
ExtEntries ==
  [n \in 1..Len(VSCODE_EXTENSIONS.install) |->
     [list |-> "install", ext |-> VSCODE_EXTENSIONS.install[n]]] \o
  [n \in 1..Len(VSCODE_EXTENSIONS.uninstall) |->
     [list |-> "uninstall", ext |-> VSCODE_EXTENSIONS.uninstall[n]]]

\* The command of each entry with the warning that is due if it fails.
ExtDues ==
  [n \in 1..Len(ExtEntries) |->
     [command |-> ExtCommand(ExtEntries[n].list, ExtEntries[n].ext),
      warning |-> ExtWarning(ExtEntries[n].list, ExtEntries[n].ext)]]
ExtCommandSet == { ExtDues[n].command : n \in 1..Len(ExtDues) }
ExtWarningSet == { ExtDues[n].warning : n \in 1..Len(ExtDues) }

\* Where in ran the function was entered in this invocation; 0 if it was not.
ExtStart ==
  IF Ran("manage_vscode_extensions")
    THEN CHOOSE j \in 1..Len(ran) : ran[j] = "manage_vscode_extensions"
    ELSE 0

\* The extension loops are behind this invocation: the function has run and the
\* invocation is past its loops, and no interrupt ended it.
ExtLoopsDone ==
  /\ Ran("manage_vscode_extensions")
  /\ pc \notin ExtensionPcs
  /\ ~(pc = "exit" /\ InterruptedRun)

\* Every entry's command has run in this invocation, in list order.
AllExtRan ==
  \A n \in 1..Len(ExtDues) :
     /\ ExtStart + n <= Len(ran)
     /\ ran[ExtStart + n] = ExtDues[n].command

\* C19: at every moment the extension commands run so far are the first ones of
\* the list "every install entry, then every uninstall entry", each once and in
\* list order, right after the function was entered; once the loops are behind an
\* invocation that no interrupt ended, all of them have run, whichever of them
\* failed; and if such an invocation ends with status 1, a later stage failed, not
\* an extension command.
C19_ReconciliationCompletes ==
  LET start == ExtStart
  IN /\ \A j \in 1..Len(ran) :
          ran[j] \in ExtCommandSet =>
             /\ start > 0
             /\ j > start
             /\ j - start <= Len(ExtDues)
             /\ \A n \in 1..(j - start) : ran[start + n] = ExtDues[n].command
     /\ ExtLoopsDone => AllExtRan
     /\ (ExtLoopsDone /\ pc = "exit" /\ exitCode # 0) =>
           failed \cap {"post_install", "launch"} # {}

\* C19, witness: every install and uninstall command failed, and the invocation
\* went on to launch the editor and ended with status 0.
C19_EveryEntryFailed ==
  /\ pc = "exit"
  /\ exitCode = 0
  /\ ~InterruptedRun
  /\ Ran("launch")
  /\ AllExtRan
  /\ ExtCommandSet \subseteq failed

\* The warning due for entry n is in the log of this invocation.
Warned(n) == \E l \in 1..Len(log) : log[l] = ExtDues[n].warning

\* C20: no warning about an extension is logged before every entry has been
\* processed; a warning that is logged is that of an entry whose command failed,
\* and it is logged once; and once the function has returned, the warning of every
\* entry whose command failed has been logged.
C20_FailureSummary ==
  /\ pc \in ExtensionPcs \cup {"ext_warn"} =>
        \A l \in 1..Len(log) : log[l] \notin ExtWarningSet
  /\ \A l \in 1..Len(log) :
        log[l] \in ExtWarningSet =>
           /\ AllExtRan
           /\ \A n \in 1..Len(ExtDues) :
                 log[l] = ExtDues[n].warning => ExtDues[n].command \in failed
           /\ \A l2 \in 1..Len(log) : log[l2] = log[l] => l2 = l
  /\ (pc \in {"post_install", "launch", "complete"} \/ (pc = "exit" /\ ~InterruptedRun))
        => \A n \in 1..Len(ExtDues) : ExtDues[n].command \in failed => Warned(n)

\* C20, witness: the install command failed and the uninstall command succeeded,
\* the function has returned, and the one warning is in the log.
C20_OneFailureSummarised ==
  /\ pc = "post_install"
  /\ AllExtRan
  /\ ExtDues[1].command \in failed
  /\ ExtDues[Len(ExtDues)].command \notin failed
  /\ Warned(1)
  /\ ~Warned(Len(ExtDues))

\* verify_vscode has logged that the editor was not found.
EditorAbsent == LoggedMsg("WARNING", "VS Code not found (Skipping extension setup)")

\* The messages of the errors main raises itself before its first stage.
PreconditionErrors ==
  { "Python 3.12 required", "Target folder does not exist",
    "git command not found, cannot clone project",
    "cannot clone (exists and is not a git repository)" }

\* C21: manage_vscode_extensions and its commands run only in an invocation that
\* found the editor, and they run in every invocation that found it and got past
\* the call; an invocation that did not find the editor has logged the warning
\* once it is past verify_vscode, runs neither the reconciliation nor the launch,
\* and if it ends with a status other than 0, an operation failed or a
\* precondition error was raised.
C21_EditorGuardsReconciliation ==
  LET absent == EditorAbsent
      past == pc \in {"ext_install", "ext_uninstall", "ext_warn", "post_install",
                      "launch", "complete"}
  IN /\ has_vscode => ~absent
     /\ \A j \in 1..Len(ran) :
           (ran[j] = "manage_vscode_extensions" \/ ran[j] = "launch" \/
            ran[j] \in ExtCommandSet) => has_vscode
     /\ (past \/ (pc = "exit" /\ exitCode = 0 /\ ~InterruptedRun)) =>
           IF has_vscode THEN Ran("manage_vscode_extensions") ELSE absent
     /\ (pc = "exit" /\ exitCode # 0 /\ absent) =>
           \/ failed # {}
           \/ log[Len(log)].arg \in PreconditionErrors

\* C21, witness: an invocation that did not find the editor went through the
\* editor set-up without the reconciliation and ended with status 0.
C21_CompletedWithoutEditor ==
  /\ pc = "exit"
  /\ exitCode = 0
  /\ ~InterruptedRun
  /\ EditorAbsent
  /\ Ran("setup_vscode_global")
  /\ ~Ran("manage_vscode_extensions")

\* ------------------------------------------------- properties of get_release.py

\* The first "-" of tag, or the position after its end.
FirstDash(tag) ==
  IF \E p \in 1..Len(tag) : tag[p] = "-"
    THEN CHOOSE p \in 1..Len(tag) : tag[p] = "-" /\ \A q \in 1..(p - 1) : tag[q] # "-"
    ELSE Len(tag) + 1

\* The components of the version of tag: what stands between the leading
\* character and the label, cut at the dots.
Components(tag) == Split(SubSeq(tag, 2, FirstDash(tag) - 1))

\* The label of tag: what follows the first "-"; empty if there is none.
LabelOf(tag) == SubSeq(tag, FirstDash(tag) + 1, Len(tag))

\* tag has the form vMAJOR[.MINOR[.PATCH]][-label]: a v, one to three components
\* that are numbers, and, if a "-" follows, a label that is not empty.
IsStrictTag(tag) ==
  /\ Len(tag) >= 2
  /\ tag[1] = "v"
  /\ Len(Components(tag)) \in 1..3
  /\ \A c \in 1..Len(Components(tag)) :
        /\ Components(tag)[c] # << >>
        /\ \A p \in 1..Len(Components(tag)[c]) : IsAsciiDigit(Components(tag)[c][p])
  /\ FirstDash(tag) <= Len(tag) => LabelOf(tag) # << >>

\* MAJOR, MINOR and PATCH of a strict tag as numbers, 0 for one that is left out.
Triple(tag) ==
  [c \in 1..3 |-> IF c <= Len(Components(tag)) THEN int(Components(tag)[c]) ELSE 0]

\* Version a is greater than version b.
Newer(a, b) ==
  \/ a[1] > b[1]
  \/ a[1] = b[1] /\ a[2] > b[2]
  \/ a[1] = b[1] /\ a[2] = b[2] /\ a[3] > b[3]

\* The release with this tag passes: the tag is eligible, its version text starts
\* with the prefix if one is given, and if a label pattern is given it has a label
\* that the pattern matches.
Passes(tag) ==
  /\ IsStrictTag(tag)
  /\ version_prefix # << >> => StartsWith(SubSeq(tag, 1, FirstDash(tag) - 1), version_prefix)
  /\ label_regex # << >> => LabelOf(tag) # << >> /\ LabelMatches(label_regex, LabelOf(tag))

\* The releases of the example of the specification.
ExampleReleases ==
  << [tag_name |-> << "v", "1", ".", "2", ".", "0" >>],
     [tag_name |-> << "v", "1", ".", "3", ".", "0", "-", "b", "e", "t", "a" >>],
     [tag_name |-> << "v", "1", ".", "2", ".", "5" >>] >>

\* C22: when select_latest_matching_release has returned, it has returned None if
\* no release passes, and else a release that passes and whose version no passing
\* release exceeds; from v1.2.0, v1.3.0-beta, v1.2.5 it has returned v1.2.5 for the
\* prefix v1.2 and v1.3.0-beta for the label pattern beta without prefix.
C22_SelectsMaximum ==
  pc = "selected" =>
    LET passing == { n \in 1..Len(releases) : Passes(releases[n].tag_name) }
    IN /\ IF passing = {}
            THEN selected = NoRelease
            ELSE \E n \in passing :
                   /\ selected = releases[n]
                   /\ \A m \in passing :
                         ~Newer(Triple(releases[m].tag_name), Triple(selected.tag_name))
       /\ (releases = ExampleReleases /\ version_prefix = << "v", "1", ".", "2" >>
           /\ label_regex = << >>) => selected = ExampleReleases[3]
       /\ (releases = ExampleReleases /\ version_prefix = << >>
           /\ label_regex = << "b", "e", "t", "a" >>) => selected = ExampleReleases[2]

\* C22, witness: the example with the prefix v1.2 has returned v1.2.5.
C22_ExampleSelected ==
  /\ pc = "selected"
  /\ releases = ExampleReleases
  /\ version_prefix = << "v", "1", ".", "2" >>
  /\ label_regex = << >>
  /\ selected = ExampleReleases[3]

\* C23: no entry of matches and no release returned has a tag that is not of the
\* form vMAJOR[.MINOR[.PATCH]][-label], whatever the filters.
C23_OnlyStrictTags ==
  /\ \A n \in 1..Len(matches) : IsStrictTag(matches[n].release.tag_name)
  /\ selected # NoRelease => IsStrictTag(selected.tag_name)

\* C23, witness: without filters, among releases that hold a tag with four
\* components and a greater number, a release with a strict tag was returned.
C23_RefusedGreaterTag ==
  /\ pc = "selected"
  /\ version_prefix = << >>
  /\ label_regex = << >>
  /\ \E n \in 1..Len(releases) :
        releases[n].tag_name = << "v", "9", ".", "0", ".", "0", ".", "0" >>
  /\ selected # NoRelease
  /\ IsStrictTag(selected.tag_name)

\* ----------------------------------------------- properties of extract_archive

\* A path relative to extract_to that names a file inside extract_to.
Inside(rel) == rel # << >> /\ rel[1] # ".."

\* C29, as stated: whatever the archive, every file extract_archive has written
\* lies inside target_dir.
C29_ExtractionContained == \A rel \in written : Inside(rel)

\* ------------------------------------------------------- properties, continued

\* The command that installs the n-th package.
PipCommand(n) == "pip install " \o PACKAGES[n]
PipCommandSet == { PipCommand(n) : n \in 1..Len(PACKAGES) }

\* C24: each step that starts a pip install is a step of the loop of
\* install_packages in an invocation in which no install has failed; it starts the
\* install of the first package right after create_virtualenv and that of every
\* other package right after the install of the package before it, which
\* succeeded; if the install fails, the exception leaves main at once: the critical
\* "Error: " with the failed command is logged and the process ends with status 1;
\* if it succeeds, the package is installed and the loop goes on.
C24_InstallPolicy ==
  [][ (ran' # ran /\ ran' # << >> /\ ran'[Len(ran')] \in PipCommandSet) =>
        /\ pc = "install_packages"
        /\ "install_packages" \notin failed
        /\ ran' = Append(ran, PipCommand(k))
        /\ ran[Len(ran)] = IF k = 1 THEN "create_virtualenv" ELSE PipCommand(k - 1)
        /\ \A n \in 1..(k - 1) : PACKAGES[n] \in installed
        /\ IF "install_packages" \in failed'
             THEN /\ pc' = "exit"
                  /\ exitCode' = 1
                  /\ log' = Append(log, [level |-> "CRITICAL", msg |-> "Error: ",
                                         arg |-> CalledProcessError(PipCommand(k))])
                  /\ installed' = installed
             ELSE /\ installed' = installed \cup { PACKAGES[k] }
                  /\ pc' = IF k = Len(PACKAGES) THEN "setup_vscode" ELSE pc
                  /\ exitCode' = exitCode ]_vars

\* C24, witness: the install of the first package failed and ended the invocation.
C24_FirstInstallFailed ==
  /\ pc = "exit"
  /\ exitCode = 1
  /\ "install_packages" \in failed
  /\ ran[Len(ran)] = PipCommand(1)

\* C25: the step in which the process gets an exit status other than 0 is a step
\* in which an operation fails or main raises a precondition error; it finds no
\* critical message in the log, adds exactly one record to it, the critical
\* "Error: ", after everything the invocation ran and logged, and ends the
\* invocation; after it nothing more is logged in that invocation.
C25_OneCriticalMessage ==
  [][ /\ (exitCode = -1 /\ exitCode' \notin {-1, 0}) =>
           /\ pc' = "exit"
           /\ \A l \in 1..Len(log) : log[l].level # "CRITICAL"
           /\ Len(log') = Len(log) + 1
           /\ SubSeq(log', 1, Len(log)) = log
           /\ log'[Len(log')].level = "CRITICAL"
           /\ log'[Len(log')].msg = "Error: "
           /\ failed' # failed \/ log'[Len(log')].arg \in PreconditionErrors
           /\ Len(ran') >= Len(ran)
           /\ SubSeq(ran', 1, Len(ran)) = ran
      /\ (pc = "exit" /\ exitCode # 0) => (run' = run + 1 /\ log' = << >>) ]_vars

\* C25, witness: an invocation that had logged a warning ended with status 1 on a
\* failed post-install hook, the critical message last in its log.
C25_FatalAfterWarning ==
  /\ pc = "exit"
  /\ exitCode = 1
  /\ EditorAbsent
  /\ "post_install" \in failed
  /\ log[Len(log)].level = "CRITICAL"
  /\ Len(log) >= 2

\* The last entries of ran are these operations, in this order.
EndsWith(ops) ==
  /\ Len(ran) >= Len(ops)
  /\ SubSeq(ran, Len(ran) - Len(ops) + 1, Len(ran)) = ops

\* C26: a step that starts the hard reset comes right after the stash push, the
\* two fetches and the rev-parse of this invocation, none of which failed, and
\* finds a working tree without uncommitted edits and without conflict markers;
\* a step that starts the stash pop comes right after the hard reset of this
\* invocation, which did not fail.
C26_UpdateOrder ==
  [][ (ran' # ran /\ ran' # << >>) =>
        /\ ran'[Len(ran')] = "reset_hard" =>
              /\ EndsWith(<< "stash_push", "fetch_tags", "fetch_origin", "rev_parse" >>)
              /\ failed \cap {"stash_push", "fetch_tags", "fetch_origin", "rev_parse"} = {}
              /\ repo.wt = CleanTree
        /\ ran'[Len(ran')] = "stash_pop" =>
              /\ EndsWith(<< "stash_push", "fetch_tags", "fetch_origin", "rev_parse",
                             "reset_hard" >>)
              /\ failed \cap UpdatePcs = {}
              /\ repo.head = repo.origin ]_vars

\* C26, witness: the hard reset has run on a repository whose local edit the
\* stash push of this invocation had shelved; the stash pop is next.
C26_ResetAfterShelving ==
  /\ pc = "stash_pop"
  /\ EndsWith(<< "reset_hard" >>)
  /\ repo.stash # << >>
  /\ Head(repo.stash).msg = "autostash before update"
  /\ repo.wt = CleanTree

\* C27, as stated: the update pops only the entry its own stash push made: in the
\* first invocation every stash entry the student had made before is still in the
\* stash list, and the working tree never holds the edit of such an entry.
C27_PopsOwnEntry ==
  run = 1 =>
     /\ repo.wt.edit.id # "shelved"
     /\ \A n \in 1..Len(hist.world0.repo.stash) :
           \E m \in 1..Len(repo.stash) : repo.stash[m] = hist.world0.repo.stash[n]

\* The uncommitted edit with this id and these lines is in the working tree or in
\* an entry of the stash list of repository r.
Kept(r, id, lines) ==
  \/ r.wt.edit.id = id /\ r.wt.edit.lines = lines
  \/ \E n \in 1..Len(r.stash) : r.stash[n].edit.id = id /\ r.stash[n].edit.lines = lines

\* C28: no step of any invocation, whether a command of the update succeeds or
\* fails in it, a conflict is found or an interrupt arrives, loses an uncommitted
\* edit of the student's: an edit that is in the working tree or in the stash list
\* before the step is in one of them after it.
C28_NoWorkLost ==
  [][ \A id \in {"local", "shelved"}, lines \in {"disjoint", "overlap"} :
         Kept(repo, id, lines) => Kept(repo', id, lines) ]_vars

\* C28, witness: the update stopped at a failed fetch after it had shelved the
\* local edit, which is in the stash list and not in the working tree.
C28_ShelvedAtFailedFetch ==
  /\ "fetch_tags" \in failed
  /\ repo.wt = CleanTree
  /\ repo.stash # << >>
  /\ Head(repo.stash).edit.id = "local"

\* The statements of main up to its last precondition check.
PreconditionPcs ==
  { "verify_python", "verify_git", "verify_vscode", "check_base", "clone_stage" }

\* C30: while main is at its precondition checks no operation has started, and a
\* step it takes there, interrupted or not, changes nothing on disk; the step that
\* raises a precondition error (interpreter version, base directory, clone
\* without git or onto a path that is no git repository) is such a step; a clone
\* that is requested without git or onto an existing path without .git ends,
\* unless interrupted, in that error with status 1; and the cloner is started only
\* as the first operation, with git available, on a destination that does not
\* exist.
C30_PreconditionsFirst ==
  [][ /\ pc \in PreconditionPcs =>
           /\ ran = << >>
           /\ UNCHANGED << checkout, files, repo, cache, venv, installed >>
      /\ (exitCode = -1 /\ exitCode' = 1 /\ log'[Len(log')].arg \in PreconditionErrors) =>
           /\ pc \in PreconditionPcs
           /\ ran' = << >>
           /\ failed' = {}
      /\ (/\ pc = "clone_stage"
          /\ CloneMode
          /\ ~checkout.marker
          /\ ~has_git \/ checkout.exists
          /\ pc' # pc
          /\ hist' = hist) =>
           /\ pc' = "exit"
           /\ exitCode' = 1
           /\ log'[Len(log')].arg \in PreconditionErrors
      /\ (ran' # ran /\ ran' # << >> /\ ran'[Len(ran')] = "clone") =>
           ran = << >> /\ has_git /\ ~checkout.exists ]_vars

\* C30, witness: a clone was requested onto a folder that exists and is no git
\* repository, and the invocation ended in the error without an operation started.
C30_RefusedCloneOntoFolder ==
  /\ pc = "exit"
  /\ exitCode = 1
  /\ CloneMode
  /\ checkout.exists
  /\ ~checkout.marker
  /\ ran = << >>
  /\ log[Len(log)].arg = "cannot clone (exists and is not a git repository)"

\* ------------------------------------------------------------ C31: stage order

\* The operations of the checkout stage: the cloner's attempts, the update
\* sequence, the archive download and the extraction.
CheckoutOps == { "clone", "download", "extract" } \cup UpdatePcs

\* The operations that follow the checkout stage, in the order main has them:
\* environment creation, one install per package, editor configuration, the
\* extension reconciliation if the editor was found, the hook if its script is in
\* the checkout, and the launch of the editor.
StagePlan ==
  << "create_virtualenv" >> \o
  [n \in 1..Len(PACKAGES) |-> PipCommand(n)] \o
  << "setup_vscode", "setup_vscode_global" >> \o
  (IF has_vscode
     THEN << "manage_vscode_extensions" >> \o [n \in 1..Len(ExtDues) |-> ExtDues[n].command]
     ELSE << >>) \o
  (IF HookExists THEN << "post_install" >> ELSE << >>) \o
  (IF has_vscode THEN << "launch" >> ELSE << >>)

IsPrefix(a, b) == Len(a) <= Len(b) /\ \A j \in 1..Len(a) : a[j] = b[j]

\* The position of the first operation of s that is past the checkout stage.
FirstLater(s) ==
  IF \E j \in 1..Len(s) : s[j] \notin CheckoutOps
    THEN CHOOSE j \in 1..Len(s) :
           s[j] \notin CheckoutOps /\ \A l \in 1..(j - 1) : s[l] \in CheckoutOps
    ELSE Len(s) + 1

\* The checkout stage of this invocation is over: the update sequence ran to its
\* end or was given up or skipped, or the extraction has written every file
\* member's target.
CheckoutStageOver ==
  \/ ran # << >> /\ ran[Len(ran)] = "stash_pop" /\ ~HasConflict(stash_result)
  \/ UpdateRan /\ UpdateFailedLogged
  \/ UpdateSkipped /\ ~has_git /\ checkout.marker
  \/ /\ ran # << >> /\ ran[Len(ran)] = "extract"
     /\ "open_archive" \notin failed
     /\ \A n \in 1..Len(ArchiveMembers) :
          ~ArchiveMembers[n].is_dir => files[member_relpath(n)].kind # "none"

\* C31: whenever main runs an operation, the operations of this invocation are
\* those of the checkout stage followed by the first ones of the fixed plan
\* "environment creation, package installs, editor configuration, extension
\* reconciliation, hook", each once; environment creation starts only when the
\* checkout stage is over; every later operation starts only when the environment
\* is built and nothing of provisioning has failed; and the hook runs only if its
\* script is in the checkout, after every package was installed in this
\* invocation, in the environment that create_virtualenv returned.
C31_StageOrder ==
  [][ (ran' # ran /\ ran' # << >>) =>
        LET op == ran'[Len(ran')]
            later == SubSeq(ran', FirstLater(ran'), Len(ran'))
        IN /\ IsPrefix(later, StagePlan)
           /\ op = "create_virtualenv" => CheckoutStageOver
           /\ op \notin CheckoutOps \cup { "create_virtualenv" } =>
                /\ venv = "ok"
                /\ failed \cap { "create_virtualenv", "install_packages" } = {}
           /\ op = "post_install" =>
                /\ HookExists
                /\ \A n \in 1..Len(PACKAGES) : PACKAGES[n] \in installed /\ Ran(PipCommand(n))
                /\ has_vscode => AllExtRan /\ fails = NoFails ]_vars

\* C31, witness: an invocation that extracted the archive and found the editor
\* has run every stage and its hook.
C31_HookRanAfterEveryStage ==
  /\ pc = "launch"
  /\ Ran("extract")
  /\ Ran("manage_vscode_extensions")
  /\ Ran("post_install")
  /\ "post_install" \notin failed

\* ------------------------------------------- C32: a failed download and the cache

\* The step ends download_with_etag with an error that is not a 304: urlopen raised
\* for an error status or a broken transport, or response.read() raised.
DownloadFails == pc \in DownloadPcs /\ "download" \in failed' /\ "download" \notin failed

\* C32: download_with_etag writes nothing before the body has been read, so when
\* the call ends with an error status, a transport error or a failed read of the
\* body, the content file and the metadata file are as they were when the call
\* began, no path was returned, and main ends with status 1; what a later 304
\* returns is then the entry that was there.
C32_FailedDownloadKeepsCache ==
  [][ /\ pc = "download" => cache' = cache
      /\ DownloadFails =>
           /\ cache' = cache
           /\ ~ReturnsCached(resp')
           /\ pc' = "exit"
           /\ exitCode' = 1 ]_vars

\* C32, witness: with the entry of the first version in the cache and the remote
\* at its second version, the read of the new body failed.
C32_ReadFailedOverEntry ==
  /\ pc = "exit"
  /\ "download" \in failed
  /\ resp.kind = "response"
  /\ resp.status = 200
  /\ resp.ver = 2
  /\ cache = [body |-> Archive(1), meta |-> Meta(1, 1)]

\* ------------------------------------------- C33: conditional request headers

\* The value the metadata file stores under a key, 0 if there is no metadata
\* file, no such value, or an empty one.
Stored(key) ==
  IF cache.meta.kind # "json" THEN 0
  ELSE IF key = "ETag" THEN cache.meta.ETag ELSE cache.meta.LastModified

\* C33: a request of download_with_etag carries If-None-Match exactly when the
\* entry of the URL stores a non-empty ETag, with that value, and
\* If-Modified-Since exactly when it stores a non-empty Last-Modified, with that
\* value; without metadata file it carries neither; the server answers that
\* request, so a 304 comes only to a validator that was stored. Every call reads
\* the one entry of CODE_ARCHIVE, whatever the arguments of the invocation.
C33_ConditionalHeaders ==
  [][ (pc = "download" /\ resp' # NoResp) =>
        /\ headers'.IfNoneMatch # 0 <=> Stored("ETag") # 0
        /\ headers'.IfNoneMatch # 0 => headers'.IfNoneMatch = cache.meta.ETag
        /\ headers'.IfModifiedSince # 0 <=> Stored("Last-Modified") # 0
        /\ headers'.IfModifiedSince # 0 => headers'.IfModifiedSince = cache.meta.LastModified
        /\ cache.meta.kind = "none" => headers' = NoHeaders
        /\ resp' \in Answers(server', headers')
        /\ resp'.status = 304 => Stored("ETag") # 0 \/ Stored("Last-Modified") # 0 ]_vars

\* C33, witness: the entry stores a Last-Modified and no ETag; the request carried
\* If-Modified-Since alone and was answered 304.
C33_OnlyModifiedSinceSent ==
  /\ pc = "extract"
  /\ cache.meta = Meta(0, 1)
  /\ headers = [IfNoneMatch |-> 0, IfModifiedSince |-> 1]
  /\ resp.status = 304

====
